---- MODULE Spec2Model ----
(***************************************************************************)
(* PitCrew: the local execution and mutation core.                         *)
(*   - ReadWrite (src/pitcrew/tools/read_write.py): read, write, patch,    *)
(*     create_snapshot, restore_snapshot over a filesystem;                *)
(*   - Executor (src/pitcrew/tools/executor.py): run, is_dangerous;        *)
(*   - PitCrewGraph.handle_apply (src/pitcrew/graph.py): the apply cycle.  *)
(*                                                                         *)
(* The filesystem is a function from absolute paths (sequences of names)   *)
(* to nodes: a directory, a regular file with its content (a sequence of   *)
(* lines) or a symbolic link with its target.                              *)
(***************************************************************************)
EXTENDS Integers, Sequences, FiniteSets, TLC

VARIABLES
    fs,      \* the filesystem: absolute path -> node
    now,     \* the last reading of datetime.now(), in microseconds
    ops,     \* number of ReadWrite calls made so far (bounded by MaxOps)
    last,    \* the last ReadWrite call: operation, arguments, return value
    rt,      \* the snapshot whose round trip is being followed
    issued,  \* the snapshot ids create_snapshot has returned so far
    xpc,     \* Executor.run: "idle", "communicate", "drain", "returned", "raised"
    xcall,   \* the arguments of the run call: command, sandbox, timeout
    xenv,    \* os.environ at the run call and the env given to Popen
    shell,   \* the shell started by Popen: "none", "running", "exited", "killed"
    child,   \* a process the shell started: "none", "pipes", "detached", "exited"
    outbuf,  \* what the command has written: stdout, stderr, undecodable bytes
    spawned, \* subprocesses created by the current run call
    xres,    \* the ExecResult of the run call
    runs,    \* run calls made so far (bounded by MaxRuns)
    apc,     \* handle_apply: "idle", "snapshot", "edit", "check", "fix", "done", "raised"
    plan,    \* the plan being applied
    ei,      \* index of the next edit of the plan
    ci,      \* index of the current post-check
    attempt, \* attempts of the current post-check that have failed
    alog,    \* the messages of the cycle: step, index, outcome
    pre,     \* the filesystem when the cycle began
    snap,    \* the id of the snapshot the cycle created, "" if none
    undo,    \* handle_undo: calls made, the snapshot the last one restored
    pcall,   \* the last call of the diff utilities: operation and arguments
    pres,    \* what that call returned
    vcall,   \* Planner._validate_plan: passes made, the plan given, the index
    vres,    \* the plan as the last pass left it
    cw,      \* two concurrent write calls on one path: position, content, handle, result
    cdisk    \* the directory entries of the target and of its temporary file, and the files

storeVars == <<fs, now, ops, last, rt, issued>>
execVars == <<xpc, xcall, xenv, shell, child, outbuf, spawned, xres, runs>>
applyVars == <<apc, plan, ei, ci, attempt, alog, pre, snap, undo>>
diffVars == <<pcall, pres>>
planVars == <<vcall, vres>>
concVars == <<cw, cdisk>>
vars == <<storeVars, execVars, applyVars, diffVars, planVars, concVars>>

----------------------------------------------------------------------------
(* Bounds of the model *)

MaxOps == 3          \* ReadWrite calls in one behaviour
MaxClock == 1        \* clock values 0..MaxClock
BytesPerMb == 2      \* scale of the size limits: one "MB" is this many bytes
MaxRuns == 2         \* Executor.run calls in one behaviour
MaxDuration == 1     \* measured durations 0..MaxDuration
MaxEdits == 2        \* edits in a plan
MaxSessionOps == 4    \* snapshots, writes and /undo commands in one session
MaxUndos == 2         \* handle_undo calls after a cycle
MaxPlanEdits == 2     \* edits in a plan given to _validate_plan
MaxValidations == 2   \* passes of _validate_plan over one plan
MaxChecks == 1       \* post-checks in a plan

----------------------------------------------------------------------------
(* Paths and nodes *)

Root == <<"proj">>                          \* ReadWrite.project_root
OutDir == <<"out">>                         \* a directory outside the root
SnapBase == Root \o <<".pitcrew", "snapshots">>

DirNode == [kind |-> "dir", data |-> <<>>]
FileNode(d) == [kind |-> "file", data |-> d]
LinkNode(t) == [kind |-> "link", data |-> t]

BadBytes == "\\xff"                          \* a line that is not valid UTF-8

Front(s) == SubSeq(s, 1, Len(s) - 1)
Last(s) == s[Len(s)]
IsPrefix(p, q) == Len(p) <= Len(q) /\ SubSeq(q, 1, Len(p)) = p
Prefixes(p) == {SubSeq(p, 1, k) : k \in 0..Len(p)}
SeqsOf(S, n) == UNION {[1..k -> S] : k \in 0..n}

Exists(f, q) == q \in DOMAIN f
IsDir(f, q) == Exists(f, q) /\ f[q].kind = "dir"
IsFile(f, q) == Exists(f, q) /\ f[q].kind = "file"

\* f with path q bound to node n
Put(f, q, n) == [x \in DOMAIN f \cup {q} |-> IF x = q THEN n ELSE f[x]]
\* f without path q
Del(f, q) == [x \in DOMAIN f \ {q} |-> f[x]]

\* Path.resolve(): ".." pops a component, a symbolic link is replaced by its
\* target, a missing component is kept (strict=False).
RECURSIVE ResolveFrom(_, _, _)
ResolveFrom(f, cur, parts) ==
    IF parts = <<>> THEN cur
    ELSE LET h == Head(parts)
             t == Tail(parts)
         IN  IF h = ".."
             THEN ResolveFrom(f, IF cur = <<>> THEN <<>> ELSE Front(cur), t)
             ELSE LET nxt == Append(cur, h)
                  IN  IF Exists(f, nxt) /\ f[nxt].kind = "link"
                      THEN ResolveFrom(f, f[nxt].data, t)
                      ELSE ResolveFrom(f, nxt, t)

Resolve(f, parts) == ResolveFrom(f, <<>>, parts)

\* The node the operating system acts on for unlink/replace: the directory
\* part is resolved, a symbolic link in the last component is not followed.
OsPath(f, parts) ==
    IF parts = <<>> THEN <<>>
    ELSE IF Last(parts) = ".." THEN Resolve(f, parts)
    ELSE Append(Resolve(f, Front(parts)), Last(parts))

\* ReadWrite._resolve_path: an absolute path is returned as given, a relative
\* one is joined to the root and resolved.
resolve_path(f, p) ==
    IF p.abs THEN p.parts ELSE Resolve(f, Root \o p.parts)

\* ReadWrite._is_safe_path: path.resolve() is the root or below it.
is_safe_path_noresolve(f, path) == IsPrefix(Root, path)
is_safe_path(f, path) == IsPrefix(Resolve(f, Root), Resolve(f, path))

----------------------------------------------------------------------------
(* Results of the ReadWrite operations.  A call either returns (ok, err,   *)
(* val) or lets an exception escape (raised); fs is the filesystem it      *)
(* leaves behind.                                                          *)

Ret(f, ok, err, val) ==
    [fs |-> f, ok |-> ok, err |-> err, val |-> val, raised |-> FALSE]
Raise(f, exc) ==
    [fs |-> f, ok |-> FALSE, err |-> exc, val |-> <<>>, raised |-> TRUE]
\* the process is killed inside the call: nothing is returned
Killed(f) == Ret(f, FALSE, "killed", <<>>)

\* len(content.encode("utf-8")): every line is one byte and its newline
Bytes(content) == 2 * Len(content)

max_read_mb == 8
max_write_mb == 2
max_read_bytes == max_read_mb * BytesPerMb
max_write_bytes == max_write_mb * BytesPerMb

IsUtf8(content) == \A i \in 1..Len(content) : content[i] # BadBytes

\* Path.mkdir(parents=True, exist_ok=True): every missing ancestor is made;
\* the call fails when the path or an ancestor exists and is not a directory.
MkdirBlocked(f, q) == \E a \in Prefixes(q) : Exists(f, a) /\ ~IsDir(f, a)
Mkdirs(f, q) ==
    [x \in DOMAIN f \cup Prefixes(q) |-> IF x \in DOMAIN f THEN f[x] ELSE DirNode]

\* file_path.with_suffix(file_path.suffix + ".tmp"): the sibling whose name is
\* the target's name followed by ".tmp"
TmpPath(q) == Append(Front(q), Last(q) \o ".tmp")

(* ReadWrite.read.  fault is what the operating system does to this call:  *)
(* "none", "stat" (stat fails) or "io" (open or read fails).               *)
ReadOp(f, p, fault) ==
    LET file_path == resolve_path(f, p)
        q == Resolve(f, file_path)
    IN  IF ~is_safe_path(f, file_path) THEN Ret(f, FALSE, "outside", <<>>)
        ELSE IF ~Exists(f, q) THEN Ret(f, FALSE, "notfound", <<>>)
        ELSE IF ~IsFile(f, q) THEN Ret(f, FALSE, "notafile", <<>>)
        ELSE IF fault = "stat" THEN Ret(f, FALSE, "cannotstat", <<>>)
        ELSE IF Bytes(f[q].data) > max_read_bytes THEN Ret(f, FALSE, "toolarge", <<>>)
        ELSE IF ~IsUtf8(f[q].data) THEN Ret(f, FALSE, "notutf8", <<>>)
        ELSE IF fault = "io" THEN Ret(f, FALSE, "cannotread", <<>>)
        ELSE Ret(f, TRUE, "", f[q].data)

\* the same steps writing into the target itself, without a temporary file
WriteStepsInPlace(f, q, content, fault, cut) ==
    LET f1 == Mkdirs(f, Front(q))
    IN  IF MkdirBlocked(f, Front(q)) THEN Raise(f, "FileExistsError")
        ELSE IF fault = "mkdir" /\ ~IsDir(f, Front(q)) THEN Raise(f, "OSError")
        ELSE IF IsDir(f1, q) \/ fault = "open" THEN Ret(f1, FALSE, "cannotwrite", <<>>)
        ELSE IF fault \in {"write", "replace"}
             THEN Ret(Put(f1, q, FileNode(SubSeq(content, 1, cut))), FALSE, "cannotwrite", <<>>)
        ELSE IF fault = "crash"
             THEN Killed(Put(f1, q, FileNode(SubSeq(content, 1, cut))))
        ELSE Ret(Put(f1, q, FileNode(content)), TRUE, "", <<>>)

(* ReadWrite.write, lines 105-119: the directories, the temporary file, the *)
(* rename.  fault is the step at which the operating system fails: "none",  *)
(* "mkdir", "open", "write" (after cut lines have been written), "replace", *)
(* or "crash" (the process dies after cut lines, before the rename).        *)
WriteSteps(f, q, content, fault, cut) ==
    LET tmp == TmpPath(q)
        f1 == Mkdirs(f, Front(q))
        opened == Put(f1, tmp, FileNode(<<>>))
        partial == Put(f1, tmp, FileNode(SubSeq(content, 1, cut)))
        \* the except branch: if temp_path.exists(): temp_path.unlink()
        cleanup(g) == IF ~Exists(g, tmp) THEN Ret(g, FALSE, "cannotwrite", <<>>)
                      ELSE IF IsDir(g, tmp) THEN Raise(g, "IsADirectoryError")
                      ELSE Ret(Del(g, tmp), FALSE, "cannotwrite", <<>>)
    IN  IF MkdirBlocked(f, Front(q)) THEN Raise(f, "FileExistsError")
        ELSE IF fault = "mkdir" /\ ~IsDir(f, Front(q)) THEN Raise(f, "OSError")
        ELSE IF IsDir(f1, tmp) \/ fault = "open" THEN cleanup(f1)
        ELSE IF fault = "write" THEN cleanup(partial)
        ELSE IF fault = "crash" THEN Killed(partial)
        ELSE IF IsDir(f1, q) \/ fault = "replace"
             THEN cleanup(Put(f1, tmp, FileNode(content)))
        ELSE Ret(Put(Del(opened, tmp), q, FileNode(content)), TRUE, "", <<>>)

\* ReadWrite.write with the size test "content_bytes >= self.max_write_bytes"
WriteOpStrict(f, p, content, fault, cut) ==
    LET file_path == resolve_path(f, p)
    IN  IF ~is_safe_path(f, file_path) THEN Ret(f, FALSE, "outside", <<>>)
        ELSE IF Bytes(content) >= max_write_bytes THEN Ret(f, FALSE, "toolarge", <<>>)
        ELSE WriteSteps(f, OsPath(f, file_path), content, fault, cut)

(* ReadWrite.write *)
WriteOp(f, p, content, fault, cut) ==
    LET file_path == resolve_path(f, p)
    IN  IF ~is_safe_path(f, file_path) THEN Ret(f, FALSE, "outside", <<>>)
        ELSE IF Bytes(content) > max_write_bytes THEN Ret(f, FALSE, "toolarge", <<>>)
        ELSE WriteSteps(f, OsPath(f, file_path), content, fault, cut)

----------------------------------------------------------------------------
(* Patches.  A unified diff as the parser hands it to apply_patch: the     *)
(* number of files it names, whether it is malformed, and the hunks of its *)
(* file, each with the source start line, the source length and its lines  *)
(* (tag "+", "-" or " ").                                                  *)

Max(a, b) == IF a > b THEN a ELSE b
Min(a, b) == IF a < b THEN a ELSE b

\* lines[s:e] = new, with Python's slice rules: a negative index counts from
\* the end, both ends are clamped to the list, an empty range inserts
SliceAssign(lines, s, e, new) ==
    LET n == Len(lines)
        norm(i) == IF i < 0 THEN Max(n + i, 0) ELSE Min(i, n)
        lo == norm(s)
        hi == Max(norm(e), lo)
    IN  SubSeq(lines, 1, lo) \o new \o SubSeq(lines, hi + 1, n)

RECURSIVE KeptLines(_)
KeptLines(body) ==
    IF body = <<>> THEN <<>>
    ELSE IF Head(body).tag \in {"+", " "}
         THEN <<Head(body).text>> \o KeptLines(Tail(body))
         ELSE KeptLines(Tail(body))

\* the hunks are applied last first
RECURSIVE ApplyHunks(_, _)
ApplyHunks(lines, hunks) ==
    IF hunks = <<>> THEN lines
    ELSE LET h == Last(hunks)
         IN  ApplyHunks(SliceAssign(lines, h.start - 1, h.start - 1 + h.len,
                                    KeptLines(h.body)),
                        Front(hunks))

(* apply_patch: [ok, val, err] *)
apply_patch(content, diff) ==
    IF diff.malformed THEN [ok |-> FALSE, val |-> <<>>, err |-> "failed"]
    ELSE IF diff.nfiles = 0 THEN [ok |-> FALSE, val |-> <<>>, err |-> "empty"]
    ELSE IF diff.nfiles > 1 THEN [ok |-> FALSE, val |-> <<>>, err |-> "multiple"]
    ELSE [ok |-> TRUE, val |-> ApplyHunks(content, diff.hunks), err |-> ""]

\* normalize_line_endings: "\r\n" and "\r" become "\n"; a line of the model
\* carries no line ending of its own
normalize_line_endings(content) == content

\* the same call writing back whatever apply_patch returned
PatchOpUnchecked(f, p, diff, fault, cut) ==
    LET r == ReadOp(f, p, fault)
        a == apply_patch(normalize_line_endings(r.val), diff)
        w == WriteOp(f, p, a.val, fault, cut)
    IN  IF ~r.ok THEN Ret(f, FALSE, "cannotread", <<>>)
        ELSE IF w.raised \/ w.err = "killed" THEN w
        ELSE IF ~a.ok THEN Ret(w.fs, FALSE, a.err, <<>>)
        ELSE IF ~w.ok THEN Ret(w.fs, FALSE, "cannotwrite", <<>>)
        ELSE Ret(w.fs, TRUE, "", <<>>)

(* ReadWrite.patch *)
PatchOp(f, p, diff, fault, cut) ==
    LET r == ReadOp(f, p, fault)
        a == apply_patch(normalize_line_endings(r.val), diff)
        w == WriteOp(f, p, a.val, fault, cut)
    IN  IF ~r.ok THEN Ret(f, FALSE, "cannotread", <<>>)
        ELSE IF ~a.ok THEN Ret(f, FALSE, a.err, <<>>)
        ELSE IF w.raised \/ w.err = "killed" THEN w
        ELSE IF ~w.ok THEN Ret(w.fs, FALSE, "cannotwrite", <<>>)
        ELSE Ret(w.fs, TRUE, "", <<>>)

----------------------------------------------------------------------------
(* Snapshots *)

Digit(n) == CASE n = 0 -> "0" [] n = 1 -> "1" [] n = 2 -> "2" [] n = 3 -> "3"
              [] n = 4 -> "4" [] n = 5 -> "5" [] n = 6 -> "6" [] n = 7 -> "7"
              [] n = 8 -> "8" [] n = 9 -> "9"

\* datetime.now().strftime("%Y%m%d_%H%M%S_%f"): fixed width, zero padded
strftime(t) == Digit((t \div 10) % 10) \o Digit(t % 10)

\* a copy that leaves an existing destination as it is
Copy2NoClobber(f, src, dst) ==
    LET s == Resolve(f, src)
    IN  IF ~IsFile(f, s) \/ s = dst THEN [ok |-> FALSE, fs |-> f]
        ELSE IF Exists(f, dst) THEN [ok |-> TRUE, fs |-> f]
        ELSE [ok |-> TRUE, fs |-> Put(f, dst, FileNode(f[s].data))]

\* shutil.copy2(src, dst): src is opened (links followed); a directory as dst
\* receives the file under the source's name
Copy2(f, src, dst) ==
    LET s == Resolve(f, src)
        d == IF IsDir(f, dst) THEN Append(dst, Last(s)) ELSE dst
    IN  IF ~IsFile(f, s) \/ s = d \/ IsDir(f, d)
        THEN [ok |-> FALSE, fs |-> f]
        ELSE [ok |-> TRUE, fs |-> Put(f, d, FileNode(f[s].data))]

\* the loop of create_snapshot (lines 167-189) over the remaining files
RECURSIVE SnapshotLoop(_, _, _, _)
SnapshotLoop(f, dir, files, fault) ==
    IF files = <<>> THEN [ok |-> TRUE, fs |-> f]
    ELSE LET file_path == resolve_path(f, Head(files))
             real == Resolve(f, file_path)
             rel == SubSeq(real, Len(Root) + 1, Len(real))
             dest == dir \o rel
             c == Copy2(Mkdirs(f, Front(dest)), file_path, dest)
         IN  IF ~Exists(f, real) THEN SnapshotLoop(f, dir, Tail(files), fault)
             ELSE IF ~is_safe_path(f, file_path)
                  THEN SnapshotLoop(f, dir, Tail(files), fault)
             ELSE IF MkdirBlocked(f, Front(dest)) \/ fault = "copy"
                  THEN [ok |-> FALSE, fs |-> f]
             ELSE IF ~c.ok THEN c
             ELSE SnapshotLoop(c.fs, dir, Tail(files), fault)

(* ReadWrite.create_snapshot at clock value t; val is <<snapshot_id>> *)
CreateSnapshotOp(f, t, files, fault) ==
    LET snapshot_id == strftime(t)
        dir == Append(SnapBase, snapshot_id)
        r == SnapshotLoop(Mkdirs(f, dir), dir, files, fault)
    IN  IF MkdirBlocked(f, dir) \/ (fault = "mkdir" /\ ~IsDir(f, dir))
        THEN Ret(f, FALSE, "cannotsnapshot", <<>>)
        ELSE IF ~r.ok THEN Ret(r.fs, FALSE, "cannotsnapshot", <<>>)
        ELSE Ret(r.fs, TRUE, "", <<snapshot_id>>)

\* the files below the snapshot directory: snapshot_dir.rglob("*"), not is_dir
SnapshotFiles(f, dir) == {x \in DOMAIN f : IsPrefix(dir, x) /\ x # dir /\ ~IsDir(f, x)}

\* the loop of restore_snapshot (lines 212-226) over the remaining files
RECURSIVE RestoreLoop(_, _, _, _)
RestoreLoop(f, dir, todo, fault) ==
    IF todo = {} THEN [ok |-> TRUE, fs |-> f]
    ELSE LET snapshot_file == CHOOSE x \in todo : TRUE
             rel == SubSeq(snapshot_file, Len(dir) + 1, Len(snapshot_file))
             dest == Root \o rel
             c == Copy2(Mkdirs(f, Front(dest)), snapshot_file, dest)
         IN  IF MkdirBlocked(f, Front(dest)) \/ fault = "copy"
             THEN [ok |-> FALSE, fs |-> f]
             ELSE IF ~c.ok THEN c
             ELSE RestoreLoop(c.fs, dir, todo \ {snapshot_file}, fault)

(* ReadWrite.restore_snapshot *)
RestoreSnapshotOp(f, snapshot_id, fault) ==
    LET dir == Append(SnapBase, snapshot_id)
        r == RestoreLoop(f, dir, SnapshotFiles(f, dir), fault)
    IN  IF ~Exists(f, dir) THEN Ret(f, FALSE, "notfound", <<>>)
        ELSE IF ~r.ok THEN Ret(r.fs, FALSE, "cannotrestore", <<>>)
        ELSE Ret(r.fs, TRUE, "", <<>>)

\* the characters of a snapshot id, each as the digit it shows
IdDigits(id) == CHOOSE ds \in [1..2 -> 0..9] : Digit(ds[1]) \o Digit(ds[2]) = id

\* string order: at the first place where they differ a has the smaller
\* character, or a is a proper prefix of b
StrLess(a, b) ==
    \/ \E k \in 1..Min(Len(a), Len(b)) :
           a[k] < b[k] /\ SubSeq(a, 1, k - 1) = SubSeq(b, 1, k - 1)
    \/ Len(a) < Len(b) /\ a = SubSeq(b, 1, Len(a))

\* sorted(names, reverse=True)
RECURSIVE SortedDescending(_)
SortedDescending(names) ==
    IF names = {} THEN <<>>
    ELSE LET top == CHOOSE x \in names :
                        \A y \in names \ {x} : StrLess(IdDigits(y), IdDigits(x))
         IN  <<top>> \o SortedDescending(names \ {top})

(* ReadWrite.list_snapshots: the directories in .pitcrew/snapshots, the    *)
(* greatest name first                                                      *)
list_snapshots(f) ==
    IF ~Exists(f, SnapBase) THEN <<>>
    ELSE SortedDescending({Last(q) : q \in {x \in DOMAIN f :
                                Len(x) = Len(SnapBase) + 1 /\ Front(x) = SnapBase
                                /\ IsDir(f, x)}})

----------------------------------------------------------------------------
(* The inputs the operations are called with *)

Rel(parts) == [abs |-> FALSE, parts |-> parts]
Abs(parts) == [abs |-> TRUE, parts |-> parts]
NoPath == Rel(<<>>)

P_a == Rel(<<"a">>)                         \* an existing file
P_n == Rel(<<"n">>)                         \* a new file
P_db == Rel(<<"d", "b">>)                   \* a new file in a new directory
P_ax == Rel(<<"a", "x">>)                   \* below a regular file
P_up == Rel(<<"..", "out", "s">>)           \* leaves the root by ".."
P_lnk == Rel(<<"lnk", "s">>)                \* leaves the root by a link
P_absin == Abs(<<"proj", "a">>)             \* absolute, inside
P_absout == Abs(<<"out", "s">>)             \* absolute, outside
P_absup == Abs(<<"proj", "..", "out", "s">>)
P_snap == Rel(<<".pitcrew", "snapshots", strftime(0), "a">>)  \* in a snapshot

P_root == Rel(<<>>)                         \* '': the project root, a directory

PathInputs == {P_a, P_n, P_db, P_ax, P_up, P_lnk, P_absin, P_absout, P_absup}

C0 == <<"x", "y">>
C1 == <<"m">>
C2 == <<"m", "n">>
CBig == <<"m", "n", "m">>
ContentInputs == {C1, C2, CBig}

\* content of exactly max_write_bytes bytes, and content one line longer
AtLimit == [i \in 1..(max_write_bytes \div 2) |-> "m"]
OverLimit == Append(AtLimit, "m")

Hunk(start, len, body) == [start |-> start, len |-> len, body |-> body]
HLine(tag, text) == [tag |-> tag, text |-> text]
Diff(nfiles, malformed, hunks) ==
    [nfiles |-> nfiles, malformed |-> malformed, hunks |-> hunks]
D_first == Diff(1, FALSE, <<Hunk(1, 1, <<HLine("-", "x"), HLine("+", "z")>>)>>)
D_empty == Diff(0, FALSE, <<>>)
D_multi == Diff(2, FALSE, <<Hunk(1, 1, <<HLine("-", "x"), HLine("+", "z")>>)>>)
D_bad == Diff(1, TRUE, <<>>)                \* the parser raises
DiffInputs == {D_first, D_empty, D_multi, D_bad}

SnapshotInputs == {<<P_a>>, <<P_a, P_n>>, <<P_up, P_a>>, <<P_absout>>}

\* what the operating system does to a call ("none": nothing goes wrong)
ReadFaults == {"none", "stat", "io"}
WriteFaults == {"none", "mkdir", "open", "write", "replace", "crash"}
CopyFaults == {"none", "mkdir", "copy"}

\* the calls of the model: every path without a fault, and the faults on the
\* paths where they can strike
ReadInputs ==
    {<<p, "none">> : p \in {P_a, P_n, P_up, P_lnk, P_absout}}
    \cup {<<P_a, ft>> : ft \in ReadFaults}
WriteInputs ==
    {<<p, C1, "none", 0>> : p \in PathInputs}
    \cup {<<P_a, c, "none", 0>> : c \in ContentInputs}
    \cup {<<p, C2, ft, 1>> : p \in {P_a, P_n}, ft \in WriteFaults \ {"none", "mkdir"}}
    \cup {<<P_db, C1, "mkdir", 0>>}
    \cup {<<P_snap, C1, "none", 0>>}
    \cup {<<P_ax, AtLimit, "none", 0>>, <<P_n, OverLimit, "none", 0>>}
    \cup {<<P_a, C2, "crash", k>> : k \in 0..Len(C2)}
PatchInputs ==
    {<<p, d, "none">> : p \in {P_a, P_n, P_up}, d \in {D_first, D_empty}}
    \cup {<<P_a, d, "none">> : d \in DiffInputs}
    \cup {<<P_a, D_first, ft>> : ft \in {"io", "write", "replace"}}
CreateInputs ==
    {<<files, "none">> : files \in SnapshotInputs \cup {<<P_root>>}}
    \cup {<<<<P_a>>, ft>> : ft \in CopyFaults}
RestoreFaults == {"none", "copy"}

InitFs ==
    (<<>> :> DirNode) @@ (Root :> DirNode) @@ (OutDir :> DirNode)
    @@ (Append(Root, "a") :> FileNode(C0))
    @@ (Append(Root, "lnk") :> LinkNode(OutDir))
    @@ (Append(OutDir, "s") :> FileNode(<<"secret">>))

----------------------------------------------------------------------------
(* The diff utilities on text (src/pitcrew/utils/diffs.py).  A text is the  *)
(* sequence of its lines, each with its line ending.  A patch text is a     *)
(* sequence of pieces, the strings difflib.unified_diff yields: the two     *)
(* file headers, a hunk header with its two ranges, and the body lines;    *)
(* nl tells whether the piece ends with a newline.                          *)

MaxLines == 3                               \* lines in a text
TextLines == {"x", "y"}
TextInputs == SeqsOf(TextLines, MaxLines)

context == 3                                \* difflib.unified_diff(n=3)

Piece(k, text, src, tgt, nl) ==
    [k |-> k, text |-> text, src |-> src, tgt |-> tgt, nl |-> nl]

Tagged(tag, lines) == [i \in 1..Len(lines) |-> HLine(tag, lines[i])]

\* SequenceMatcher.find_longest_match: the blocks a[i..i+k-1] = b[j..j+k-1];
\* the longest one, of those the first in a, of those the first in b
MatchingBlocks(a, b) ==
    {m \in (1..Len(a)) \X (1..Len(b)) \X (1..Len(a)) :
        /\ m[1] + m[3] - 1 <= Len(a)
        /\ m[2] + m[3] - 1 <= Len(b)
        /\ SubSeq(a, m[1], m[1] + m[3] - 1) = SubSeq(b, m[2], m[2] + m[3] - 1)}
find_longest_match(a, b) ==
    CHOOSE m \in MatchingBlocks(a, b) :
        \A d \in MatchingBlocks(a, b) :
            \/ m[3] > d[3]
            \/ m[3] = d[3] /\ m[1] < d[1]
            \/ m[3] = d[3] /\ m[1] = d[1] /\ m[2] <= d[2]

\* SequenceMatcher.get_opcodes as unified_diff prints them: the lines left
\* and right of the longest block are matched in turn; where nothing matches
\* the lines of a are removed and the lines of b added
RECURSIVE EditScript(_, _)
EditScript(a, b) ==
    IF MatchingBlocks(a, b) = {} THEN Tagged("-", a) \o Tagged("+", b)
    ELSE LET m == find_longest_match(a, b)
             i == m[1]
             j == m[2]
             k == m[3]
         IN  EditScript(SubSeq(a, 1, i - 1), SubSeq(b, 1, j - 1))
             \o Tagged(" ", SubSeq(a, i, i + k - 1))
             \o EditScript(SubSeq(a, i + k, Len(a)), SubSeq(b, j + k, Len(b)))

RECURSIVE LeadingContext(_)
LeadingContext(script) ==
    IF script = <<>> \/ Head(script).tag # " " THEN 0
    ELSE 1 + LeadingContext(Tail(script))
RECURSIVE TrailingContext(_)
TrailingContext(script) ==
    IF script = <<>> \/ Last(script).tag # " " THEN 0
    ELSE 1 + TrailingContext(Front(script))

CountTags(body, tags) == Cardinality({i \in 1..Len(body) : body[i].tag \in tags})

\* difflib._format_range_unified(start, stop): "b" for one line, "b,n"
\* otherwise, and an empty range is printed with the line before it
format_range_unified(start, stop) ==
    IF stop - start = 1 THEN <<start + 1>>
    ELSE IF stop - start = 0 THEN <<start, 0>>
    ELSE <<start + 1, stop - start>>

\* difflib.unified_diff(a, b, lineterm=""): nothing for equal texts, else
\* the headers (each ending with lineterm) and the lines of the group with
\* at most context equal lines around the changes.  The texts of the model
\* are shorter than the 2 * context equal lines that split a group.
unified_diff(a, b) ==
    LET script == EditScript(a, b)
        lead == Max(LeadingContext(script) - context, 0)
        trail == Max(TrailingContext(script) - context, 0)
        body == SubSeq(script, lead + 1, Len(script) - trail)
        na == CountTags(body, {" ", "-"})
        nb == CountTags(body, {" ", "+"})
    IN  IF \A i \in 1..Len(script) : script[i].tag = " " THEN <<>>
        ELSE << Piece("---", "a/file", <<>>, <<>>, FALSE),
                Piece("+++", "b/file", <<>>, <<>>, FALSE),
                Piece("@@", "", format_range_unified(lead, lead + na),
                      format_range_unified(lead, lead + nb), FALSE) >>
             \o [i \in 1..Len(body) |-> Piece(body[i].tag, body[i].text, <<>>, <<>>, TRUE)]

\* the lines of "".join(pieces): a line ends with the first piece that ends
\* with a newline
RECURSIVE JoinedLines(_, _)
JoinedLines(pieces, cur) ==
    IF pieces = <<>> THEN (IF cur = <<>> THEN <<>> ELSE <<cur>>)
    ELSE IF Head(pieces).nl
         THEN <<Append(cur, Head(pieces))>> \o JoinedLines(Tail(pieces), <<>>)
         ELSE JoinedLines(Tail(pieces), Append(cur, Head(pieces)))

(* create_patch: the text as the parser will read it, line by line *)
create_patch(original, modified) == JoinedLines(unified_diff(original, modified), <<>>)

\* the range of a hunk header as unidiff reads it: the length is 1 when it
\* is not written
ParseRange(r) == [start |-> r[1], len |-> IF Len(r) = 1 THEN 1 ELSE r[2]]

\* unidiff PatchedFile._parse_hunk: body lines are read until the source and
\* target lengths of the header are reached; a line that is no body line, too
\* many or too few lines raise UnidiffParseError.  A line is what it starts
\* with.
RECURSIVE ParseHunk(_, _, _, _, _, _)
ParseHunk(lines, ns, nt, wants, wantt, body) ==
    IF lines = <<>>
    THEN [ok |-> ns = wants /\ nt = wantt, body |-> body, rest |-> <<>>]
    ELSE LET first == Head(lines)[1]
             ns1 == ns + (IF first.k \in {" ", "-"} THEN 1 ELSE 0)
             nt1 == nt + (IF first.k \in {" ", "+"} THEN 1 ELSE 0)
         IN  IF first.k \notin {" ", "-", "+"} \/ ns1 > wants \/ nt1 > wantt
             THEN [ok |-> FALSE, body |-> body, rest |-> <<>>]
             ELSE IF ns1 = wants /\ nt1 = wantt
             THEN [ok |-> TRUE, body |-> Append(body, HLine(first.k, first.text)),
                   rest |-> Tail(lines)]
             ELSE ParseHunk(Tail(lines), ns1, nt1, wants, wantt,
                            Append(body, HLine(first.k, first.text)))

\* unidiff PatchSet._parse: a line that starts with "--- " is a source
\* header, with "+++ " a target header that opens a file, with "@@ " a hunk
\* header; any other line outside a hunk is patch information and closes the
\* current file.  cur: a file is open.  The hunks kept are those of the
\* first file.
RECURSIVE ParseLines(_, _, _, _)
ParseLines(lines, nfiles, cur, hunks) ==
    IF lines = <<>> THEN Diff(nfiles, FALSE, hunks)
    ELSE LET first == Head(lines)[1]
             rest == Tail(lines)
             src == ParseRange(first.src)
             tgt == ParseRange(first.tgt)
             h == ParseHunk(rest, 0, 0, src.len, tgt.len, <<>>)
         IN  CASE first.k = "---" -> ParseLines(rest, nfiles, FALSE, hunks)
               [] first.k = "+++" ->
                    IF cur THEN Diff(nfiles, TRUE, hunks)
                    ELSE ParseLines(rest, nfiles + 1, TRUE, hunks)
               [] first.k = "@@" ->
                    IF ~cur \/ ~h.ok THEN Diff(nfiles, TRUE, hunks)
                    ELSE ParseLines(h.rest, nfiles, TRUE,
                                    IF nfiles = 1
                                    THEN Append(hunks, Hunk(src.start, src.len, h.body))
                                    ELSE hunks)
               [] OTHER -> ParseLines(rest, nfiles, FALSE, hunks)

(* unidiff.PatchSet(patch_str) *)
PatchSet(patch_str) == ParseLines(patch_str, 0, FALSE, <<>>)

----------------------------------------------------------------------------
(* The ReadWrite calls as actions *)

Call(op, path, content, files, id, r) ==
    [op |-> op, path |-> path, content |-> content, files |-> files, id |-> id,
     ok |-> r.ok, err |-> r.err, val |-> r.val, raised |-> r.raised]

NoTrack == [phase |-> "off", id |-> "", path |-> NoPath, c0 |-> <<>>, writes |-> 0]

\* the file a path input names, as the operating system finds it
Target(f, p) == Resolve(f, resolve_path(f, p))

NoCallYet == Call("init", NoPath, <<>>, <<>>, "", Ret(InitFs, TRUE, "", <<>>))

Read ==
    /\ ops < MaxOps
    /\ UNCHANGED <<execVars, applyVars, diffVars, planVars, concVars>>
    /\ \E in \in ReadInputs :
         LET r == ReadOp(fs, in[1], in[2])
         IN  /\ fs' = r.fs
             /\ last' = Call("read", in[1], <<>>, <<>>, "", r)
    /\ ops' = ops + 1
    /\ rt' = NoTrack
    /\ UNCHANGED <<now, issued>>

Write ==
    /\ ops < MaxOps
    /\ UNCHANGED <<execVars, applyVars, diffVars, planVars, concVars>>
    /\ \E in \in WriteInputs :
         LET p == in[1]
             r == WriteOp(fs, p, in[2], in[3], in[4])
         IN  /\ fs' = r.fs
             /\ last' = Call("write", p, in[2], <<>>, "", r)
             /\ rt' = IF rt.phase = "armed" /\ rt.path = p /\ r.ok
                      THEN [rt EXCEPT !.writes = 1] ELSE NoTrack
    /\ ops' = ops + 1
    /\ UNCHANGED <<now, issued>>

Patch ==
    /\ ops < MaxOps
    /\ UNCHANGED <<execVars, applyVars, diffVars, planVars, concVars>>
    /\ \E in \in PatchInputs :
         LET p == in[1]
             r == PatchOp(fs, p, in[2], in[3], 1)
         IN  /\ fs' = r.fs
             /\ last' = Call("patch", p, <<>>, <<>>, "", r)
             /\ rt' = IF rt.phase = "armed" /\ rt.path = p /\ r.ok
                      THEN [rt EXCEPT !.writes = 1] ELSE NoTrack
    /\ ops' = ops + 1
    /\ UNCHANGED <<now, issued>>

\* datetime.now() is read once per call: t is the reading, not before the
\* previous one
CreateSnapshot ==
    /\ ops < MaxOps
    /\ UNCHANGED <<execVars, applyVars, diffVars, planVars, concVars>>
    /\ \E in \in CreateInputs, t \in now..MaxClock :
         LET files == in[1]
             r == CreateSnapshotOp(fs, t, files, in[2])
             p == files[1]
         IN  /\ fs' = r.fs
             /\ now' = t
             /\ last' = Call("create_snapshot", NoPath, <<>>, files, "", r)
             /\ issued' = IF r.ok THEN issued \cup {r.val[1]} ELSE issued
             /\ rt' = IF r.ok /\ Len(files) = 1 /\ is_safe_path(fs, resolve_path(fs, p))
                         /\ IsFile(fs, Target(fs, p))
                      THEN [phase |-> "armed", id |-> r.val[1], path |-> p,
                            c0 |-> fs[Target(fs, p)].data, writes |-> 0]
                      ELSE NoTrack
    /\ ops' = ops + 1

RestoreSnapshot ==
    /\ ops < MaxOps
    /\ UNCHANGED <<execVars, applyVars, diffVars, planVars, concVars>>
    /\ \E t \in 0..MaxClock, fault \in RestoreFaults :
         LET r == RestoreSnapshotOp(fs, strftime(t), fault)
         IN  /\ fs' = r.fs
             /\ last' = Call("restore_snapshot", NoPath, <<>>, <<>>, strftime(t), r)
             /\ rt' = IF rt.phase = "armed" /\ rt.id = strftime(t) /\ r.ok
                      THEN [rt EXCEPT !.phase = "restored"] ELSE NoTrack
    /\ ops' = ops + 1
    /\ UNCHANGED <<now, issued>>

StoreNext == Read \/ Write \/ Patch \/ CreateSnapshot \/ RestoreSnapshot

----------------------------------------------------------------------------
(* Executor.is_dangerous: the patterns of DANGEROUS_PATTERNS, searched in   *)
(* the command.  A command is the sequence of its characters; a pattern is  *)
(* a sequence of items: one character of a class, any number of characters  *)
(* of a class, or a word boundary.                                          *)

LowerChars == {"a", "b", "c", "d", "e", "f", "g", "h", "i", "j", "k", "l", "m",
               "n", "o", "p", "q", "r", "s", "t", "u", "v", "w", "x", "y", "z"}
WordChars == LowerChars \cup {"0", "1", "2", "3", "4", "5", "6", "7", "8", "9", "_"}

InClass(ch, c) ==
    CASE c = "ANY" -> ch # "\n"
      [] c = "SPACE" -> ch \in {" ", "\t", "\n"}
      [] c = "LOWER" -> ch \in LowerChars
      [] OTHER -> ch = c

Ch(c) == [k |-> "chr", c |-> c]
St(c) == [k |-> "star", c |-> c]
Wb == [k |-> "wb", c |-> ""]
Lit(str) == [i \in 1..Len(str) |-> Ch(str[i])]

\* \b at position j: exactly one of s[j-1], s[j] is a word character
Boundary(s, j) ==
    (j > 1 /\ s[j - 1] \in WordChars) # (j <= Len(s) /\ s[j] \in WordChars)

RECURSIVE MatchAt(_, _, _, _)
MatchAt(pat, i, s, j) ==
    IF i > Len(pat) THEN TRUE
    ELSE CASE pat[i].k = "chr" ->
                j <= Len(s) /\ InClass(s[j], pat[i].c) /\ MatchAt(pat, i + 1, s, j + 1)
           [] pat[i].k = "wb" -> Boundary(s, j) /\ MatchAt(pat, i + 1, s, j)
           [] pat[i].k = "star" ->
                \/ MatchAt(pat, i + 1, s, j)
                \/ j <= Len(s) /\ InClass(s[j], pat[i].c) /\ MatchAt(pat, i, s, j + 1)

\* pattern.search(command)
Search(pat, s) == \E j \in 1..(Len(s) + 1) : MatchAt(pat, 1, s, j)

Rule(pat, reason) == [pat |-> pat, reason |-> reason]
DANGEROUS_PATTERNS == <<
    Rule(<<Wb>> \o Lit(<<"s", "u", "d", "o">>) \o <<Wb>>, "Use of sudo detected"),
    Rule(<<Wb>> \o Lit(<<"r", "m">>) \o <<Ch("SPACE"), St("SPACE")>> \o Lit(<<"-", "r", "f">>)
           \o <<Ch("SPACE"), St("SPACE"), Ch("/")>>,
         "Recursive delete of root directory"),
    Rule(Lit(<<":", "(", ")", "{">>) \o <<St("ANY"), Ch("|"), St("ANY"), Ch("&"), St("ANY"), Ch("}")>>,
         "Fork bomb pattern detected"),
    Rule(Lit(<<"c", "u", "r", "l">>) \o <<St("ANY"), Ch("|"), St("ANY")>> \o Lit(<<"s", "h">>),
         "Piping curl to shell"),
    Rule(Lit(<<"w", "g", "e", "t">>) \o <<St("ANY"), Ch("|"), St("ANY")>> \o Lit(<<"s", "h">>),
         "Piping wget to shell"),
    Rule(<<Wb>> \o Lit(<<"c", "h", "m", "o", "d">>) \o <<Ch("SPACE"), St("SPACE")>> \o Lit(<<"7", "7", "7">>),
         "chmod 777 detected"),
    Rule(<<Ch(">"), St("SPACE")>> \o Lit(<<"/", "d", "e", "v", "/", "s", "d">>) \o <<Ch("LOWER")>>,
         "Writing to block device"),
    Rule(<<Wb>> \o Lit(<<"d", "d">>) \o <<Ch("SPACE"), St("SPACE"), St("ANY")>> \o Lit(<<"o", "f", "=", "/", "d", "e", "v", "/">>),
         "dd to block device") >>

Cmd_sudo == <<"s", "u", "d", "o", " ", "r", "m", " ", "-", "r", "f", " ", "/">>    \* sudo rm -rf /
Cmd_curl == <<"c", "u", "r", "l", " ", "h", "t", "t", "p", ":", "/", "/", "x", " ", "|", " ", "s", "h">>    \* curl http://x | sh
Cmd_fork == <<":", "(", ")", "{", " ", ":", "|", ":", "&", " ", "}", ";", ":">>    \* :(){ :|:& };:
Cmd_python == <<"p", "y", "t", "h", "o", "n", " ", "s", "c", "r", "i", "p", "t", ".", "p", "y">>    \* python script.py
Cmd_sleep == <<"s", "l", "e", "e", "p", " ", "1", "0">>    \* sleep 10
Cmd_exit == <<"e", "x", "i", "t", " ", "1">>    \* exit 1

CommandInputs == {Cmd_sudo, Cmd_curl, Cmd_fork, Cmd_python, Cmd_sleep, Cmd_exit}

\* handle_apply, lines 445-447: a command that is "python" or starts with
\* "python " has its first "python" replaced by "python3"
PythonWord == <<"p", "y", "t", "h", "o", "n">>
FixCommand(command) ==
    IF command = PythonWord \/ IsPrefix(Append(PythonWord, " "), command)
    THEN Append(PythonWord, "3") \o SubSeq(command, Len(PythonWord) + 1, Len(command))
    ELSE command

\* the commands is_dangerous is called with
Commands == CommandInputs \cup {FixCommand(x) : x \in CommandInputs}

\* pattern.search(command) for every rule and command: the rules found
Found ==
    [c \in Commands |->
        {DANGEROUS_PATTERNS[i] : i \in {k \in 1..Len(DANGEROUS_PATTERNS) :
                                           Search(DANGEROUS_PATTERNS[k].pat, c)}}]

\* the loop of is_dangerous over a list of rules: the first rule whose
\* pattern is found in the command decides
RECURSIVE ScanRules(_, _)
ScanRules(rules, command) ==
    IF rules = <<>> THEN [dangerous |-> FALSE, reason |-> ""]
    ELSE IF Head(rules) \in Found[command]
         THEN [dangerous |-> TRUE, reason |-> Head(rules).reason]
         ELSE ScanRules(Tail(rules), command)

\* the loop going on after a match: the last rule found decides
RECURSIVE ScanRulesToEnd(_, _)
ScanRulesToEnd(rules, command) ==
    IF rules = <<>> THEN [dangerous |-> FALSE, reason |-> ""]
    ELSE IF rules[Len(rules)] \in Found[command]
         THEN [dangerous |-> TRUE, reason |-> rules[Len(rules)].reason]
         ELSE ScanRulesToEnd(SubSeq(rules, 1, Len(rules) - 1), command)

\* is_dangerous reporting the last rule that matches
is_dangerous_last(command) == ScanRulesToEnd(DANGEROUS_PATTERNS, command)

(* Executor.is_dangerous: the reason of the first pattern found *)
is_dangerous(command) == ScanRules(DANGEROUS_PATTERNS, command)

\* is_dangerous on the commands of the model
Classify ==
    [c \in Commands |-> is_dangerous(c)]

----------------------------------------------------------------------------
(* Executor.run.  The call is followed through its waits: Popen, the        *)
(* communicate() with a timeout, and in the TimeoutExpired handler kill()   *)
(* and the second communicate().  What the command does (write, start a     *)
(* process, exit) is the environment's choice.                              *)

ExecResult(success, stdout, stderr, exit_code, duration_ms) ==
    [success |-> success, stdout |-> stdout, stderr |-> stderr,
     exit_code |-> exit_code, duration_ms |-> duration_ms, timed_out |-> FALSE]
NoResult == ExecResult(FALSE, <<>>, <<>>, 0, 0)
NoCall == [command |-> <<>>, sandbox |-> TRUE, timeout |-> 0]
NoOutput == [stdout |-> <<>>, stderr |-> <<>>, bad |-> FALSE]

default_timeout == 45
Timeouts == {1, default_timeout}

\* what the commands of the model do when the shell runs them: "exit 1"
\* exits at once with status 1 and "sleep 10" writes nothing; the other
\* commands are programs that may write, start processes and exit as they like
CanWrite(command) == command \notin {Cmd_sleep, Cmd_exit}
CanFork(command) == command # Cmd_exit
CanOutlast(command) == command # Cmd_exit
ExitCodes(command) == IF command = Cmd_exit THEN {1} ELSE {0, 1}

\* line 63: if is_dangerous and sandbox
BlockedWithoutSandbox(command, sandbox) == Classify[command].dangerous /\ ~sandbox
Blocked(command, sandbox) == Classify[command].dangerous /\ sandbox

\* environments: the variables that are set, each with its value
keep_vars == <<"PATH", "HOME", "USER", "PYTHONPATH", "VIRTUAL_ENV">>
Env_full == [v \in {"PATH", "HOME", "API_KEY"} |->
                CASE v = "PATH" -> "/bin" [] v = "HOME" -> "/h" [] OTHER -> "k1"]
Env_other == [v \in {"PATH", "HOME", "API_KEY", "LD_PRELOAD"} |->
                CASE v = "PATH" -> "/bin" [] v = "HOME" -> "/h"
                  [] v = "API_KEY" -> "k2" [] OTHER -> "x.so"]
Env_venv == [v \in {"PATH", "VIRTUAL_ENV", "API_KEY"} |->
                CASE v = "PATH" -> "/venv/bin" [] v = "VIRTUAL_ENV" -> "/venv" [] OTHER -> "k1"]
EnvInputs == {Env_full, Env_other, Env_venv}
NoEnv == [environ |-> <<>>, env |-> <<>>, handed |-> FALSE]

\* _prepare_env with env = os.environ.copy() as its starting point
prepare_env_copy(environ) == environ

(* Executor._prepare_env: the loop over keep_vars *)
prepare_env(environ) ==
    [v \in {keep_vars[i] : i \in 1..Len(keep_vars)} \cap DOMAIN environ |-> environ[v]]

\* the pipes are at end of file when no process holds them
PipesOpen == shell = "running" \/ child = "pipes"

\* lines 61-91: the filter, then Popen (which may fail: spawnOk = FALSE)
RunCall ==
    /\ xpc \in {"idle", "returned", "raised"}
    /\ runs < MaxRuns
    /\ runs' = runs + 1
    /\ UNCHANGED <<storeVars, applyVars, diffVars, planVars, concVars>>
    /\ \E command \in CommandInputs, sandbox \in BOOLEAN, timeout \in Timeouts,
          spawnOk \in BOOLEAN, d \in 0..MaxDuration, environ \in EnvInputs :
         /\ xcall' = [command |-> command, sandbox |-> sandbox, timeout |-> timeout]
         /\ outbuf' = NoOutput
         /\ child' = "none"
         /\ IF Blocked(command, sandbox)
            THEN /\ xres' = ExecResult(FALSE, <<>>,
                                       <<"Command blocked: ", Classify[command].reason>>,
                                       -1, 0)
                 /\ xenv' = NoEnv
                 /\ xpc' = "returned"
                 /\ shell' = "none"
                 /\ spawned' = 0
            ELSE IF ~spawnOk
            THEN /\ xres' = ExecResult(FALSE, <<>>, <<"Execution error: ">>, -1, d)
                 /\ xenv' = [environ |-> environ, env |-> prepare_env(environ),
                             handed |-> FALSE]
                 /\ xpc' = "returned"
                 /\ shell' = "none"
                 /\ spawned' = 0
            ELSE /\ xres' = NoResult
                 /\ xenv' = [environ |-> environ, env |-> prepare_env(environ),
                             handed |-> TRUE]
                 /\ xpc' = "communicate"
                 /\ shell' = "running"
                 /\ spawned' = 1

\* the command writes to stdout or stderr; the bytes may not be UTF-8
CommandWrites ==
    /\ shell = "running"
    /\ CanWrite(xcall.command)
    /\ \E stream \in {"stdout", "stderr"}, bad \in BOOLEAN :
         /\ outbuf[stream] = <<>>
         /\ outbuf' = [outbuf EXCEPT ![stream] = <<"out">>, !.bad = outbuf.bad \/ bad]
    /\ UNCHANGED <<xpc, xcall, xenv, shell, child, spawned, xres, runs, storeVars, applyVars, diffVars, planVars, concVars>>

\* the shell starts a process that inherits the pipes or has them redirected
CommandForks ==
    /\ shell = "running"
    /\ CanFork(xcall.command)
    /\ child = "none"
    /\ child' \in {"pipes", "detached"}
    /\ UNCHANGED <<xpc, xcall, xenv, shell, outbuf, spawned, xres, runs, storeVars, applyVars, diffVars, planVars, concVars>>

ShellExits ==
    /\ shell = "running"
    /\ shell' = "exited"
    /\ UNCHANGED <<xpc, xcall, xenv, child, outbuf, spawned, xres, runs, storeVars, applyVars, diffVars, planVars, concVars>>

ChildExits ==
    /\ child \in {"pipes", "detached"}
    /\ child' = "exited"
    /\ UNCHANGED <<xpc, xcall, xenv, shell, outbuf, spawned, xres, runs, storeVars, applyVars, diffVars, planVars, concVars>>

\* lines 94-106: communicate() returns at end of file of both pipes; decoding
\* the output may fail, which "except Exception" turns into a result
CommunicateReturns ==
    /\ xpc = "communicate"
    /\ ~PipesOpen
    /\ \E exit_code \in ExitCodes(xcall.command), d \in 0..MaxDuration :
         xres' = IF outbuf.bad
                 THEN ExecResult(FALSE, <<>>, <<"Execution error: ">>, -1, d)
                 ELSE ExecResult(exit_code = 0, outbuf.stdout, outbuf.stderr, exit_code, d)
    /\ xpc' = "returned"
    /\ UNCHANGED <<xcall, xenv, shell, child, outbuf, spawned, runs, storeVars, applyVars, diffVars, planVars, concVars>>

\* lines 108-109: the timeout expires while the command has not exited or the
\* pipes are still open; the handler kills the process Popen started
TimeoutExpired ==
    /\ xpc = "communicate"
    /\ PipesOpen
    /\ CanOutlast(xcall.command)
    /\ xpc' = "drain"
    /\ shell' = IF shell = "running" THEN "killed" ELSE shell
    /\ UNCHANGED <<xcall, xenv, child, outbuf, spawned, xres, runs, storeVars, applyVars, diffVars, planVars, concVars>>

\* lines 110-120: the second communicate() returns at end of file of both
\* pipes; it decodes the output inside the handler, where nothing catches
DrainReturns ==
    /\ xpc = "drain"
    /\ ~PipesOpen
    /\ \E d \in 0..MaxDuration :
         IF outbuf.bad
         THEN /\ xpc' = "raised"
              /\ xres' = NoResult
         ELSE /\ xpc' = "returned"
              /\ xres' = [ExecResult(FALSE, outbuf.stdout,
                                     IF outbuf.stderr # <<>> THEN outbuf.stderr
                                     ELSE <<"Command timed out after ">>,
                                     -1, d)
                          EXCEPT !.timed_out = TRUE]
    /\ UNCHANGED <<xcall, xenv, shell, child, outbuf, spawned, runs, storeVars, applyVars, diffVars, planVars, concVars>>

ExecNext ==
    \/ RunCall \/ CommandWrites \/ CommandForks \/ ShellExits \/ ChildExits
    \/ CommunicateReturns \/ TimeoutExpired \/ DrainReturns

----------------------------------------------------------------------------
(* PitCrewGraph.handle_apply: the apply cycle.  The call is followed step  *)
(* by step: the snapshot, the edits in plan order, then each post-check    *)
(* with its retries and the auto-fix between two attempts.  The language   *)
(* model answers ("ok", and the code it generates is Code) or fails        *)
(* ("down").  The ReadWrite calls of the cycle meet no failure of the      *)
(* operating system; the commands do not write into the project.           *)

EditAction(path, action, content, patch_unified) ==
    [path |-> path, action |-> action, content |-> content,
     patch_unified |-> patch_unified]
ExecutionAction(command) == [command |-> command]
Plan(edits, post_checks) == [edits |-> edits, post_checks |-> post_checks]

\* a patch with the hunk "@@ -0,0 +1 @@": it creates a file
D_create == Diff(1, FALSE, <<Hunk(0, 0, <<HLine("+", "m")>>)>>)

E_create_n == EditAction(P_n, "create", C1, D_empty)
E_create_a == EditAction(P_a, "create", C1, D_empty)
E_replace_a == EditAction(P_a, "replace", C2, D_empty)
E_replace_ax == EditAction(P_ax, "replace", C1, D_empty)
E_patch_a == EditAction(P_a, "patch", <<>>, D_first)
E_patch_n == EditAction(P_n, "patch", <<>>, D_create)
E_implement_a == EditAction(P_a, "implement", <<>>, D_empty)
E_delete_a == EditAction(P_a, "delete", <<>>, D_empty)
E_delete_up == EditAction(P_up, "delete", <<>>, D_empty)

EditInputs == {E_create_n, E_create_a, E_replace_a, E_replace_ax, E_patch_a,
               E_patch_n, E_implement_a, E_delete_a, E_delete_up}
CheckInputs == {ExecutionAction(Cmd_python), ExecutionAction(Cmd_sudo)}

PlanInputs ==
    {Plan(e, c) : e \in SeqsOf(EditInputs, MaxEdits),
                  c \in SeqsOf(CheckInputs, MaxChecks)}
NoPlan == Plan(<<>>, <<>>)

Code == <<"g">>                             \* the code the language model generates
ErrorFiles == {P_a, P_absout}               \* files a traceback may name

max_retries == 3
fix_limit == 3

Msg(step, n, ok) == [step |-> step, n |-> n, ok |-> ok]
Outcome(f, ok, raised) == [fs |-> f, ok |-> ok, raised |-> raised]

\* line 379: [edit.path for edit in plan.edits if edit.action != "create"]
RECURSIVE files_to_snapshot(_)
files_to_snapshot(edits) ==
    IF edits = <<>> THEN <<>>
    ELSE IF Head(edits).action # "create"
         THEN <<Head(edits).path>> \o files_to_snapshot(Tail(edits))
         ELSE files_to_snapshot(Tail(edits))

\* line 406: "@@ -0,0 +" in patch_content
IsCreationPatch(diff) ==
    \E i \in 1..Len(diff.hunks) : diff.hunks[i].start = 0 /\ diff.hunks[i].len = 0

\* lines 408-412: the lines of the patch that start with "+", without the "+"
RECURSIVE AddedLines(_)
AddedLines(body) ==
    IF body = <<>> THEN <<>>
    ELSE IF Head(body).tag = "+"
         THEN <<Head(body).text>> \o AddedLines(Tail(body))
         ELSE AddedLines(Tail(body))
RECURSIVE PatchContent(_)
PatchContent(hunks) ==
    IF hunks = <<>> THEN <<>>
    ELSE AddedLines(Head(hunks).body) \o PatchContent(Tail(hunks))

(* handle_implement: read, llm.complete, write; the try block catches what *)
(* llm.complete and write raise                                            *)
handle_implement(f, file_path, llm) ==
    LET w == WriteOp(f, file_path, Code, "none", 0)
    IN  IF llm = "down" THEN Outcome(f, FALSE, FALSE)
        ELSE IF w.raised THEN Outcome(w.fs, FALSE, FALSE)
        ELSE Outcome(w.fs, w.ok, FALSE)

\* lines 433-439: (self.project_root / edit.path).unlink(), every exception
\* caught; the path is neither resolved nor checked
DeleteEdit(f, p) ==
    LET file_path == IF p.abs THEN p.parts ELSE Root \o p.parts
        q == OsPath(f, file_path)
    IN  IF ~Exists(f, q) \/ IsDir(f, q) THEN Outcome(f, FALSE, FALSE)
        ELSE Outcome(Del(f, q), TRUE, FALSE)

\* lines 389-439: one edit of the plan
EditOp(f, edit, llm) ==
    LET write(content) == WriteOp(f, edit.path, content, "none", 0)
        patch == PatchOp(f, edit.path, edit.patch_unified, "none", 0)
        of(r) == Outcome(r.fs, r.ok, r.raised)
    IN  CASE edit.action \in {"create", "replace"} -> of(write(edit.content))
          [] edit.action = "patch" ->
                IF IsCreationPatch(edit.patch_unified)
                THEN of(write(PatchContent(edit.patch_unified.hunks)))
                ELSE of(patch)
          [] edit.action = "implement" -> handle_implement(f, edit.path, llm)
          [] edit.action = "delete" -> DeleteEdit(f, edit.path)

\* Executor.run(command, sandbox=True) as handle_apply sees it: a result with
\* success true ("ok"), a result with success false ("fail"), or the
\* exception of the timeout handler ("raise")
RunOutcomes(command) ==
    IF Blocked(command, TRUE) THEN {"fail"}
    ELSE {"fail"}
         \cup (IF 0 \in ExitCodes(command) THEN {"ok"} ELSE {})
         \cup (IF CanWrite(command) /\ CanOutlast(command) THEN {"raise"} ELSE {})

Take(s, n) == SubSeq(s, 1, Min(n, Len(s)))

\* lines 590-594: the plan's implement and create edits
RECURSIVE generated_paths(_)
generated_paths(edits) ==
    IF edits = <<>> THEN <<>>
    ELSE IF Head(edits).action \in {"implement", "create"}
         THEN <<Head(edits).path>> \o generated_paths(Tail(edits))
         ELSE generated_paths(Tail(edits))

\* lines 577-594: the files named in the error output, else the plan's files
\* whose name the output mentions, else the first implement and create edits.
\* The output of a blocked command is the filter's message and names no file;
\* which names of the plan an output mentions is left open.
files_to_fix(pl, command) ==
    (IF Blocked(command, TRUE) THEN {} ELSE {<<p>> : p \in ErrorFiles})
    \cup {<<pl.edits[i].path>> : i \in 1..Len(pl.edits)}
    \cup {Take(generated_paths(pl.edits), fix_limit)}

\* lines 607-613: handle_implement for each file of the fix plan
RECURSIVE ImplementAll(_, _, _)
ImplementAll(f, files, llm) ==
    IF files = <<>> THEN f
    ELSE ImplementAll(handle_implement(f, Head(files), llm).fs, Tail(files), llm)

\* where handle_apply goes after edit number done
AfterEdit(pl, done) ==
    IF done < Len(pl.edits) THEN "edit"
    ELSE IF pl.post_checks # <<>> THEN "check" ELSE "done"
AfterCheck(pl, done) == IF done < Len(pl.post_checks) THEN "check" ELSE "done"

\* handle_apply(plan_dict) is called
ApplyCall ==
    /\ apc = "idle"
    /\ \E pl \in PlanInputs : plan' = pl
    /\ apc' = "snapshot"
    /\ pre' = fs
    /\ ei' = 1
    /\ ci' = 1
    /\ attempt' = 0
    /\ alog' = <<>>
    /\ snap' = ""
    /\ UNCHANGED <<storeVars, execVars, diffVars, planVars, concVars, undo>>

\* lines 378-386: the snapshot of the files of the edits that are not "create"
ApplySnapshot ==
    /\ apc = "snapshot"
    /\ LET files == files_to_snapshot(plan.edits)
       IN  IF files = <<>>
           THEN UNCHANGED <<fs, now, issued, alog, snap>>
           ELSE \E t \in now..MaxClock :
                  LET r == CreateSnapshotOp(fs, t, files, "none")
                  IN  /\ fs' = r.fs
                      /\ now' = t
                      /\ issued' = IF r.ok THEN issued \cup {r.val[1]} ELSE issued
                      /\ snap' = IF r.ok THEN r.val[1] ELSE ""
                      /\ alog' = Append(alog, Msg("snapshot", 0, r.ok))
    /\ apc' = AfterEdit(plan, 0)
    /\ UNCHANGED <<ops, last, rt, execVars, diffVars, planVars, concVars, undo, plan, ei, ci, attempt, pre>>

\* lines 389-439: the next edit; an exception of write ends handle_apply
ApplyEdit ==
    /\ apc = "edit"
    /\ \E llm \in (IF plan.edits[ei].action = "implement" THEN {"ok", "down"} ELSE {"ok"}) :
         LET r == EditOp(fs, plan.edits[ei], llm)
         IN  /\ fs' = r.fs
             /\ IF r.raised
                THEN /\ apc' = "raised"
                     /\ UNCHANGED <<ei, alog>>
                ELSE /\ apc' = AfterEdit(plan, ei)
                     /\ ei' = ei + 1
                     /\ alog' = Append(alog, Msg("edit", ei, r.ok))
    /\ UNCHANGED <<now, ops, last, rt, issued, execVars, diffVars, planVars, concVars, undo, plan, ci, attempt, pre, snap>>

\* lines 444-468: one attempt of the current post-check
PostCheck ==
    /\ apc = "check"
    /\ \E o \in RunOutcomes(FixCommand(plan.post_checks[ci].command)) :
         CASE o = "raise" ->
                /\ apc' = "raised"
                /\ UNCHANGED <<ci, attempt, alog>>
           [] o = "ok" ->
                /\ apc' = AfterCheck(plan, ci)
                /\ ci' = ci + 1
                /\ attempt' = 0
                /\ alog' = Append(alog, Msg("check", ci, TRUE))
           [] o = "fail" ->
                /\ alog' = Append(alog, Msg("check", ci, FALSE))
                /\ IF attempt = max_retries - 1
                   THEN /\ apc' = AfterCheck(plan, ci)
                        /\ ci' = ci + 1
                        /\ attempt' = 0
                   ELSE /\ apc' = "fix"
                        /\ UNCHANGED <<ci, attempt>>
    /\ UNCHANGED <<storeVars, execVars, diffVars, planVars, concVars, undo, plan, ei, pre, snap>>

\* lines 470-475 and _auto_fix_test_failures: the analysis, then
\* handle_implement for at most fix_limit files; no exception leaves it
AutoFix ==
    /\ apc = "fix"
    /\ \E llm \in {"ok", "down"}, files \in files_to_fix(plan, FixCommand(plan.post_checks[ci].command)) :
         /\ fs' = IF llm = "down" THEN fs
                  ELSE ImplementAll(fs, Take(files, fix_limit), llm)
         /\ alog' = Append(alog, Msg("fix", ci, llm = "ok" /\ files # <<>>))
    /\ attempt' = attempt + 1
    /\ apc' = "check"
    /\ UNCHANGED <<now, ops, last, rt, issued, execVars, diffVars, planVars, concVars, undo, plan, ei, ci, pre, snap>>

(* PitCrewGraph.handle_undo: the first entry of list_snapshots() is restored *)
handle_undo(f) ==
    LET snapshots == list_snapshots(f)
        r == RestoreSnapshotOp(f, snapshots[1], "none")
    IN  IF snapshots = <<>> THEN [fs |-> f, id |-> "", ok |-> FALSE]
        ELSE [fs |-> r.fs, id |-> snapshots[1], ok |-> r.ok]

NoUndo == [n |-> 0, id |-> "", ok |-> FALSE]

\* /undo, given once handle_apply is over
Undo ==
    /\ apc \in {"done", "raised"}
    /\ undo.n < MaxUndos
    /\ LET u == handle_undo(fs)
       IN  /\ fs' = u.fs
           /\ undo' = [n |-> undo.n + 1, id |-> u.id, ok |-> u.ok]
    /\ UNCHANGED <<now, ops, last, rt, issued, execVars, diffVars, planVars, concVars,
                   apc, plan, ei, ci, attempt, alog, pre, snap>>

ApplyNext == ApplyCall \/ ApplySnapshot \/ ApplyEdit \/ PostCheck \/ AutoFix \/ Undo

\* where handle_apply stands: the step, the edit, the post-check, the attempt
ApplyControl == <<apc, ei, ci, attempt>>

\* handle_apply is inside its body and moves on: every step of the cycle
\* changes ApplyControl, and a step is possible wherever the body stands
Advance ==
    /\ apc \in {"snapshot", "edit", "check", "fix"}
    /\ apc' \in {"snapshot", "edit", "check", "fix", "done", "raised"}
    /\ ei' \in 1..(MaxEdits + 1)
    /\ ci' \in 1..(MaxChecks + 1)
    /\ attempt' \in 0..max_retries
    /\ ApplyControl' # ApplyControl

----------------------------------------------------------------------------
(* A session in which snapshots are taken, files written and /undo given   *)
(* in any order, so that /undo finds several snapshots.                    *)

SessionFiles == {<<P_a>>, <<P_snap>>}
SessionPaths == {P_a, P_snap}
SessionContents == {C1, C2}

\* create_snapshot(files), as handle_apply calls it at line 383
SessionSnapshot ==
    /\ ops < MaxSessionOps
    /\ \E files \in SessionFiles, t \in now..MaxClock :
         LET r == CreateSnapshotOp(fs, t, files, "none")
         IN  /\ fs' = r.fs
             /\ now' = t
             /\ last' = Call("create_snapshot", NoPath, <<>>, files, "", r)
             /\ issued' = IF r.ok THEN issued \cup {r.val[1]} ELSE issued
    /\ ops' = ops + 1
    /\ UNCHANGED <<rt, execVars, applyVars, diffVars, planVars, concVars>>

\* write(path, content)
SessionWrite ==
    /\ ops < MaxSessionOps
    /\ \E p \in SessionPaths, content \in SessionContents :
         LET r == WriteOp(fs, p, content, "none", 0)
         IN  /\ fs' = r.fs
             /\ last' = Call("write", p, content, <<>>, "", r)
    /\ ops' = ops + 1
    /\ UNCHANGED <<now, issued, rt, execVars, applyVars, diffVars, planVars, concVars>>

\* /undo
SessionUndo ==
    /\ ops < MaxSessionOps
    /\ LET u == handle_undo(fs)
       IN  /\ fs' = u.fs
           /\ last' = Call("undo", NoPath, <<>>, <<>>, u.id, Ret(u.fs, u.ok, "", <<>>))
    /\ ops' = ops + 1
    /\ UNCHANGED <<now, issued, rt, execVars, applyVars, diffVars, planVars, concVars>>

SessionNext == SessionSnapshot \/ SessionWrite \/ SessionUndo

----------------------------------------------------------------------------
(* Planner._validate_plan *)

Actions == {"create", "replace", "patch", "delete", "implement"}

\* the edits a model may propose for an existing and for a new file, with and
\* without content, with and without a diff
ValidationEdits ==
    {EditAction(p, act, c, d) :
        p \in {P_a, P_n}, act \in Actions, c \in {<<>>, C1}, d \in {D_empty, D_first}}
ValidationInputs == {Plan(edits, <<>>) : edits \in SeqsOf(ValidationEdits, MaxPlanEdits)}

\* index.files, as the set of their paths
IndexInputs == {{}, {P_a}}

\* the four rules of the loop body, applied in order to the action of an edit
Rule1(edit, action, existing_files) ==
    IF action = "create" /\ edit.path \in existing_files THEN "replace" ELSE action
Rule2(edit, action, existing_files) ==
    IF action \in {"patch", "replace", "delete"} /\ edit.path \notin existing_files
       /\ edit.content # <<>>
    THEN "create" ELSE action
Rule3(edit, action, existing_files) ==
    IF action \in {"create", "replace"} /\ edit.content = <<>>
    THEN IF edit.path \in existing_files THEN "patch" ELSE "create"
    ELSE action
Rule4(edit, action, existing_files) ==
    IF action = "patch" /\ edit.patch_unified = D_empty /\ edit.content # <<>>
    THEN "replace" ELSE action

\* the loop body without its first rule
validate_edit_keep(edit, existing_files) ==
    [edit EXCEPT !.action =
        Rule4(edit, Rule3(edit, Rule2(edit, edit.action, existing_files),
                          existing_files), existing_files)]

\* lines 435-455: the loop body for one edit
validate_edit(edit, existing_files) ==
    [edit EXCEPT !.action =
        Rule4(edit, Rule3(edit, Rule2(edit, Rule1(edit, edit.action, existing_files),
                                      existing_files), existing_files), existing_files)]

(* Planner._validate_plan *)
validate_plan(pl, existing_files) ==
    [pl EXCEPT !.edits = [i \in 1..Len(pl.edits) |-> validate_edit(pl.edits[i], existing_files)]]

NoValidation == [n |-> 0, plan |-> NoPlan, index |-> {}]

\* make_plan, line 88: the plan of the model is validated against the index
ValidatePlan ==
    /\ vcall.n = 0
    /\ \E pl \in ValidationInputs, index \in IndexInputs :
         /\ vcall' = [n |-> 1, plan |-> pl, index |-> index]
         /\ vres' = validate_plan(pl, index)
    /\ UNCHANGED <<storeVars, execVars, applyVars, diffVars, concVars>>

\* the validated plan is validated again against the same index
Revalidate ==
    /\ vcall.n \in 1..(MaxValidations - 1)
    /\ vcall' = [vcall EXCEPT !.n = vcall.n + 1]
    /\ vres' = validate_plan(vres, vcall.index)
    /\ UNCHANGED <<storeVars, execVars, applyVars, diffVars, concVars>>

PlanNext == ValidatePlan \/ Revalidate

----------------------------------------------------------------------------
(* Two calls of ReadWrite.write on the same path, running concurrently.    *)
(* Both compute the same temp_path (line 109).  A directory entry names a  *)
(* file; an open handle keeps the file it was opened on when the entry is  *)
(* renamed or removed.                                                     *)

Writers == {"w1", "w2"}
ConcContents == {C0, C1, C2}

\* the target exists with its initial content; no temporary file
InitDisk ==
    [tmp |-> 0, target |-> 1,
     data |-> <<InitFs[OsPath(InitFs, resolve_path(InitFs, P_a))].data>>]
IdleWriter == [pc |-> "idle", content |-> <<>>, fd |-> 0, ok |-> FALSE, full |-> FALSE]

\* a write of content at offset 0 of a file holding old
Overwrite(old, content) ==
    content \o SubSeq(old, Len(content) + 1, Len(old))

\* write(path, content) is entered; lines 92-106 pass for the target
ConcWrite(w) ==
    /\ cw[w].pc = "idle"
    /\ \E content \in ConcContents :
         cw' = [cw EXCEPT ![w] = [@ EXCEPT !.pc = "open", !.content = content]]
    /\ UNCHANGED <<cdisk, storeVars, execVars, applyVars, diffVars, planVars>>

\* line 111, open(temp_path, "w"): the file is created, or truncated if the
\* entry exists
OpenTemp(w) ==
    /\ cw[w].pc = "open"
    /\ IF cdisk.tmp = 0
       THEN /\ cdisk' = [cdisk EXCEPT !.tmp = Len(cdisk.data) + 1,
                                      !.data = Append(cdisk.data, <<>>)]
            /\ cw' = [cw EXCEPT ![w] = [@ EXCEPT !.pc = "write", !.fd = Len(cdisk.data) + 1]]
       ELSE /\ cdisk' = [cdisk EXCEPT !.data[cdisk.tmp] = <<>>]
            /\ cw' = [cw EXCEPT ![w] = [@ EXCEPT !.pc = "write", !.fd = cdisk.tmp]]
    /\ UNCHANGED <<storeVars, execVars, applyVars, diffVars, planVars>>

\* line 112 and the end of the with block: the content goes to the file of
\* the handle, from its start
WriteContent(w) ==
    /\ cw[w].pc = "write"
    /\ cdisk' = [cdisk EXCEPT !.data[cw[w].fd] = Overwrite(@, cw[w].content)]
    /\ cw' = [cw EXCEPT ![w] = [@ EXCEPT !.pc = "replace"]]
    /\ UNCHANGED <<storeVars, execVars, applyVars, diffVars, planVars>>

\* line 113, temp_path.replace(file_path), and the return of line 114; with
\* no entry at temp_path it raises FileNotFoundError
ReplaceTarget(w) ==
    /\ cw[w].pc = "replace"
    /\ IF cdisk.tmp = 0
       THEN /\ cw' = [cw EXCEPT ![w] = [@ EXCEPT !.pc = "except"]]
            /\ UNCHANGED cdisk
       ELSE /\ cdisk' = [cdisk EXCEPT !.target = cdisk.tmp, !.tmp = 0]
            /\ cw' = [cw EXCEPT ![w] = [@ EXCEPT !.pc = "returned", !.ok = TRUE,
                                          !.full = (cdisk.data[cdisk.tmp] = cw[w].content)]]
    /\ UNCHANGED <<storeVars, execVars, applyVars, diffVars, planVars>>

\* lines 115-119: the except branch removes the temporary file if there is one
CleanUp(w) ==
    /\ cw[w].pc = "except"
    /\ cdisk' = [cdisk EXCEPT !.tmp = 0]
    /\ cw' = [cw EXCEPT ![w] = [@ EXCEPT !.pc = "returned", !.ok = FALSE]]
    /\ UNCHANGED <<storeVars, execVars, applyVars, diffVars, planVars>>

ConcNext ==
    \E w \in Writers :
        ConcWrite(w) \/ OpenTemp(w) \/ WriteContent(w) \/ ReplaceTarget(w) \/ CleanUp(w)

----------------------------------------------------------------------------
(* The diff utilities as actions *)

\* a patch text written by hand: every header on a line of its own
RECURSIVE HunkLines(_)
HunkLines(hunks) ==
    IF hunks = <<>> THEN <<>>
    ELSE LET h == Head(hunks)
             nt == CountTags(h.body, {" ", "+"})
         IN  << <<Piece("@@", "", <<h.start, h.len>>, <<h.start, nt>>, TRUE)>> >>
             \o [i \in 1..Len(h.body) |->
                    <<Piece(h.body[i].tag, h.body[i].text, <<>>, <<>>, TRUE)>>]
             \o HunkLines(Tail(hunks))
PatchText(hunks) ==
    << <<Piece("---", "a/file", <<>>, <<>>, TRUE)>>,
       <<Piece("+++", "b/file", <<>>, <<>>, TRUE)>> >> \o HunkLines(hunks)

H_first == Hunk(1, 1, <<HLine("-", "x"), HLine("+", "z")>>)    \* replaces line 1
H_second == Hunk(2, 1, <<HLine("-", "y"), HLine("+", "z")>>)   \* replaces line 2
H_far == Hunk(5, 1, <<HLine("-", "x"), HLine("+", "z")>>)      \* replaces line 5
H_long == Hunk(1, 4, <<HLine(" ", "x"), HLine("-", "y"), HLine("-", "y"),
                       HLine("-", "y"), HLine("+", "z")>>)      \* lines 1 to 4
H_insert == Hunk(0, 0, <<HLine("+", "z")>>)                    \* inserts at the top
HunkInputs == {<<H_first>>, <<H_second>>, <<H_far>>, <<H_long>>, <<H_insert>>,
               <<H_first, H_far>>}

DiffCall(op, content, modified, patch, made) ==
    [op |-> op, content |-> content, modified |-> modified, patch |-> patch,
     made |-> made]
NoDiffCall == DiffCall("none", <<>>, <<>>, <<>>, FALSE)
NoDiffResult == [ok |-> FALSE, val |-> <<>>, err |-> ""]

\* create_patch(original, modified), the first call of a behaviour
CreatePatch ==
    /\ pcall.op = "none"
    /\ \E original, modified \in TextInputs :
         /\ pcall' = DiffCall("create_patch", original, modified, <<>>, FALSE)
         /\ pres' = [ok |-> TRUE, val |-> create_patch(original, modified), err |-> ""]
    /\ UNCHANGED <<storeVars, execVars, applyVars, planVars, concVars>>

\* apply_patch(original, the patch create_patch has just returned)
ApplyCreated ==
    /\ pcall.op = "create_patch"
    /\ pcall' = DiffCall("apply_patch", pcall.content, pcall.modified, pres.val, TRUE)
    /\ pres' = apply_patch(pcall.content, PatchSet(pres.val))
    /\ UNCHANGED <<storeVars, execVars, applyVars, planVars, concVars>>

\* apply_patch(content, a patch written by hand), the first call of a
\* behaviour
ApplyPatch ==
    /\ pcall.op = "none"
    /\ \E content \in TextInputs, hunks \in HunkInputs :
         /\ pcall' = DiffCall("apply_patch", content, <<>>, PatchText(hunks), FALSE)
         /\ pres' = apply_patch(content, PatchSet(PatchText(hunks)))
    /\ UNCHANGED <<storeVars, execVars, applyVars, planVars, concVars>>

DiffNext == CreatePatch \/ ApplyCreated \/ ApplyPatch

----------------------------------------------------------------------------
(* Specifications *)

\* a fresh ReadWrite on the project tree, an Executor that has run nothing
Init ==
    /\ fs = InitFs
    /\ now = 0
    /\ ops = 0
    /\ last = NoCallYet
    /\ rt = NoTrack
    /\ issued = {}
    /\ xpc = "idle"
    /\ xcall = NoCall
    /\ xenv = NoEnv
    /\ shell = "none"
    /\ child = "none"
    /\ outbuf = NoOutput
    /\ spawned = 0
    /\ xres = NoResult
    /\ runs = 0
    /\ apc = "idle"
    /\ plan = NoPlan
    /\ ei = 1
    /\ ci = 1
    /\ attempt = 0
    /\ alog = <<>>
    /\ pre = InitFs
    /\ snap = ""
    /\ undo = NoUndo
    /\ pcall = NoDiffCall
    /\ pres = NoDiffResult
    /\ vcall = NoValidation
    /\ vres = NoPlan
    /\ cw = [w \in Writers |-> IdleWriter]
    /\ cdisk = InitDisk

\* the file store alone
Spec == Init /\ [][StoreNext]_vars

\* the executor alone
ExecSpec == Init /\ [][ExecNext]_vars

\* one apply cycle
ApplySpec == Init /\ [][ApplyNext]_vars

\* the diff utilities alone
DiffSpec == Init /\ [][DiffNext]_vars

\* plan validation alone
PlanSpec == Init /\ [][PlanNext]_vars

\* the apply cycle with its steps taken whenever they can be: handle_apply
\* is sequential code that goes on as long as its calls return
ApplyFairSpec == Init /\ [][ApplyNext]_vars /\ WF_ApplyControl(Advance)

\* a session of snapshots, writes and undo commands
SessionSpec == Init /\ [][SessionNext]_vars

\* two concurrent writes alone
ConcSpec == Init /\ [][ConcNext]_vars

----------------------------------------------------------------------------
(* Properties of the file store *)

\* the path resolves, against the root, to a place outside the root
Outside(f, p) ==
    ~IsPrefix(Root, Resolve(f, IF p.abs THEN p.parts ELSE Root \o p.parts))

\* C1 (containment): a read or a write of a path that resolves outside the
\* project root returns the "outside project root" error and leaves the
\* whole filesystem as it was.
C1_Containment ==
    [][(last'.op \in {"read", "write"} /\ Outside(fs, last'.path))
         => (/\ ~last'.ok
             /\ ~last'.raised
             /\ last'.err = "outside"
             /\ fs' = fs)]_vars

C1_Witness ==
    /\ last.op = "write"
    /\ last.path = P_lnk
    /\ Outside(fs, last.path)
    /\ last.err = "outside"

\* C2 (atomic write): a write that does not return success (an error, an
\* exception, the process killed before the rename) leaves an existing target
\* with the node and content it had; a write that returns success leaves the
\* target a file holding exactly the supplied content.
C2_AtomicWrite ==
    [][last'.op = "write" =>
         LET q == Target(fs, last'.path)
         IN  /\ (~last'.ok /\ Exists(fs, q)) => (Exists(fs', q) /\ fs'[q] = fs[q])
             /\ last'.ok => (IsFile(fs', q) /\ fs'[q].data = last'.content)]_vars

\* the process was killed after one of two lines reached the temporary file:
\* the temporary file holds the partial content, the target its old content
C2_Witness ==
    /\ last.op = "write"
    /\ last.path = P_a
    /\ last.err = "killed"
    /\ IsFile(fs, <<"proj", "a.tmp">>)
    /\ fs[<<"proj", "a.tmp">>].data = <<"m">>
    /\ fs[<<"proj", "a">>].data = C0

\* C4 (snapshot/restore round trip): create_snapshot([path]) of a file with
\* content c0, then only successful writes and patches of that path, then a
\* successful restore_snapshot of the returned id: the file holds c0.
C4_RoundTrip ==
    rt.phase = "restored" =>
        (IsFile(fs, Target(fs, rt.path)) /\ fs[Target(fs, rt.path)].data = rt.c0)

C4_Witness ==
    /\ rt.phase = "restored"
    /\ rt.writes = 1
    /\ rt.c0 = C0
    /\ last.op = "restore_snapshot"
    /\ last.ok

\* C10 (the file store never raises): no exception leaves read or write.
C10_NeverRaises ==
    last.op \in {"read", "write"} => ~last.raised

----------------------------------------------------------------------------
(* Properties of the diff utilities *)

\* C11 (round-trip patch): applying to a text O the patch create_patch(O, M)
\* has returned succeeds and yields exactly M.
C11_RoundTripPatch ==
    (pcall.op = "apply_patch" /\ pcall.made) =>
        (pres.ok /\ pres.val = pcall.modified)

\* the source lines the hunk names are not all lines of the content (a hunk
\* of length 0 names the place after line start)
OutOfRange(content, h) ==
    IF h.len = 0 THEN h.start < 0 \/ h.start > Len(content)
    ELSE h.start < 1 \/ h.start + h.len - 1 > Len(content)

\* C13 (out-of-range hunks are rejected): apply_patch of a single-file patch
\* with a hunk whose source lines fall outside the content returns a
\* failure with an error message and no patched content.
C13_OutOfRangeRejected ==
    (/\ pcall.op = "apply_patch"
     /\ ~pcall.made
     /\ PatchSet(pcall.patch).nfiles = 1
     /\ \E i \in 1..Len(PatchSet(pcall.patch).hunks) :
            OutOfRange(pcall.content, PatchSet(pcall.patch).hunks[i]))
        => (~pres.ok /\ pres.err # "" /\ pres.val = <<>>)

----------------------------------------------------------------------------
(* Properties of the apply cycle *)

\* the files of the project that existed when the cycle began and that the
\* cycle has removed or left with another content
Touched ==
    {q \in DOMAIN pre :
        /\ IsPrefix(Root, q)
        /\ ~IsPrefix(Append(Root, ".pitcrew"), q)
        /\ pre[q].kind = "file"
        /\ (~Exists(fs, q) \/ fs[q] # pre[q])}

\* C3 (undo coverage): at every point of an apply cycle after its snapshot
\* step, restoring the snapshot the cycle took succeeds and returns every
\* file that existed before the cycle and that the cycle has touched to its
\* pre-cycle content.
C3_UndoCoverage ==
    apc \in {"edit", "check", "fix", "done", "raised"} =>
        LET r == RestoreSnapshotOp(fs, snap, "none")
        IN  \A q \in Touched :
                r.ok /\ IsFile(r.fs, q) /\ r.fs[q].data = pre[q].data

\* C5 (delete is path-checked): a delete edit whose path resolves outside
\* the project root is reported as failed and leaves the whole filesystem as
\* it was.
C5_DeletePathChecked ==
    [][(apc = "edit" /\ plan.edits[ei].action = "delete"
          /\ Outside(fs, plan.edits[ei].path))
         => (/\ fs' = fs
             /\ alog' = Append(alog, Msg("edit", ei, FALSE)))]_vars

\* the messages of one kind of step, as the numbers they carry
RECURSIVE StepNumbers(_, _)
StepNumbers(log, step) ==
    IF log = <<>> THEN <<>>
    ELSE IF Head(log).step = step
         THEN <<Head(log).n>> \o StepNumbers(Tail(log), step)
         ELSE StepNumbers(Tail(log), step)

\* C14 (apply-cycle ordering): the snapshot comes before the first edit, the
\* edits are made in the order of the plan, and from the first post-check on
\* the cycle writes and deletes nothing.
C14_ApplyOrdering ==
    [][/\ \A i, j \in 1..Len(alog') :
            (alog'[i].step = "snapshot" /\ alog'[j].step = "edit") => i < j
       /\ StepNumbers(alog', "edit") = [i \in 1..Len(StepNumbers(alog', "edit")) |-> i]
       /\ (StepNumbers(alog, "check") # <<>>) => fs' = fs]_vars

\* C15 (best-effort batch): when the cycle has left its edit loop, finished
\* or not, every edit of the plan has been attempted and its outcome
\* recorded.
C15_BestEffortBatch ==
    apc \in {"check", "fix", "done", "raised"} =>
        StepNumbers(alog, "edit") = [i \in 1..Len(plan.edits) |-> i]

\* C16 (each post-check runs exactly once): in a finished cycle every
\* post-check of the plan has been run through the executor one time.
C16_PostCheckOnce ==
    apc = "done" =>
        StepNumbers(alog, "check") = [i \in 1..Len(plan.post_checks) |-> i]

\* C22 (snapshot lifecycle): once the snapshot step of an apply cycle is
\* over, the cycle has created exactly one snapshot if at least one of its
\* edits targets a file that existed before the cycle, and none otherwise.
C22_SnapshotLifecycle ==
    apc \in {"edit", "check", "fix", "done", "raised"} =>
        LET existing == {i \in 1..Len(plan.edits) :
                            IsFile(pre, Target(pre, plan.edits[i].path))}
            created == Len(list_snapshots(fs)) - Len(list_snapshots(pre))
        IN  created = IF existing # {} THEN 1 ELSE 0

\* the project files stored in a snapshot, by the place restore copies them to
RestoredPlaces(f, id) ==
    {Root \o SubSeq(x, Len(SnapBase) + 2, Len(x)) :
        x \in SnapshotFiles(f, Append(SnapBase, id))}

\* C24 (restore is an overwrite, not a merge): a restore changes only the
\* project files whose relative path is stored in the snapshot: every other
\* file under the root exists after it exactly if it existed before, with the
\* same content, and no file is deleted.
C24_RestoreOverwrites ==
    [][(undo'.n = undo.n + 1 /\ undo'.id # "") =>
         LET stored == RestoredPlaces(fs, undo'.id)
             files(f) == {q \in DOMAIN f : IsPrefix(Root, q) /\ ~IsDir(f, q)}
         IN  /\ files(fs) \subseteq DOMAIN fs'
             /\ \A q \in files(fs) \ stored : fs'[q] = fs[q]
             /\ files(fs') \ stored \subseteq files(fs)]_vars

----------------------------------------------------------------------------
(* More properties of the file store *)

\* C12 (a failed patch never touches the file): a patch that returns
\* success=false (the file cannot be read, the diff is malformed, empty or
\* names several files, the write fails) leaves the target as it was: the
\* same node with the same content, or still missing.
C12_FailedPatchKeepsFile ==
    [][(last'.op = "patch" /\ ~last'.ok /\ ~last'.raised) =>
         LET q == Target(fs, last'.path)
         IN  IF Exists(fs, q) THEN Exists(fs', q) /\ fs'[q] = fs[q]
             ELSE ~Exists(fs', q)]_vars

\* the patch applied to the content but the rename of the write failed
C12_Witness ==
    /\ last.op = "patch"
    /\ last.path = P_a
    /\ last.err = "cannotwrite"
    /\ ops = 1
    /\ fs[<<"proj", "a">>].data = C0

\* C17 (snapshot ids are strictly increasing): of two create_snapshot calls
\* that succeed one after the other, the later returns a different id that
\* is greater in string order, and it is the first element of
\* list_snapshots().
C17_SnapshotIdsIncrease ==
    [][(/\ last.op = "create_snapshot" /\ last.ok
        /\ last'.op = "create_snapshot" /\ last'.ok)
         => (/\ last'.val[1] # last.val[1]
             /\ StrLess(IdDigits(last.val[1]), IdDigits(last'.val[1]))
             /\ list_snapshots(fs')[1] = last'.val[1])]_vars

\* C23 (create_snapshot skips silently): a create_snapshot call that no
\* system call fails returns success with an id that was not in use, the
\* snapshot holds, at the same project-relative place, a copy of exactly the
\* inputs that exist and resolve inside the root, and nothing more: inputs
\* that do not exist or lie outside are skipped and never copied.
C23_SnapshotSkips ==
    [][last'.op = "create_snapshot" =>
         LET files == last'.files
             r == CreateSnapshotOp(fs, now', files, "none")
             dir == Append(SnapBase, strftime(now'))
             wanted == {Target(fs, files[i]) : i \in {k \in 1..Len(files) :
                           /\ Exists(fs, Target(fs, files[k]))
                           /\ ~Outside(fs, files[k])}}
             place(q) == dir \o SubSeq(q, Len(Root) + 1, Len(q))
         IN  /\ r.ok
             /\ ~Exists(fs, dir)
             /\ SnapshotFiles(r.fs, dir) = {place(q) : q \in wanted}
             /\ \A q \in wanted : r.fs[place(q)] = fs[q]]_vars

\* what is stored under a snapshot id: its files and their contents
StoredUnder(f, id) ==
    [q \in SnapshotFiles(f, Append(SnapBase, id)) |-> f[q]]

\* C18 (snapshots are immutable): once create_snapshot has returned the id s,
\* no later write, patch, create_snapshot or restore_snapshot changes the set
\* of files stored under s or the content of any of them.
C18_SnapshotsImmutable ==
    [][\A s \in issued : StoredUnder(fs', s) = StoredUnder(fs, s)]_vars

\* nothing in the tree stands in the way of writing the file q: its parent
\* can be made, and neither q nor its temporary sibling is a directory
CanPlace(f, q) ==
    /\ ~MkdirBlocked(f, Front(q))
    /\ ~IsDir(f, q)
    /\ ~IsDir(f, TmpPath(q))

\* C19 as stated (write size ceiling): a write of content of more than
\* max_write_bytes bytes fails with the "too large" error and leaves the
\* filesystem as it was, and a write of content of exactly max_write_bytes
\* bytes to a path inside the root succeeds (when no system call fails).
C19_WriteCeiling ==
    [][last'.op = "write" =>
         /\ Bytes(last'.content) > max_write_bytes
              => (~last'.ok /\ last'.err = "toolarge" /\ fs' = fs)
         /\ (Bytes(last'.content) = max_write_bytes /\ ~Outside(fs, last'.path))
              => WriteOp(fs, last'.path, last'.content, "none", 0).ok]_vars

\* C19 amended: for a path inside the root, content of more than
\* max_write_bytes bytes is refused with the "too large" error and the
\* filesystem stays as it was; content of exactly max_write_bytes bytes is
\* never refused for its size, and where nothing in the tree stands in the way
\* of the file the write succeeds unless a system call fails.
C19_WriteCeilingInside ==
    [][(last'.op = "write" /\ ~Outside(fs, last'.path)) =>
         /\ Bytes(last'.content) > max_write_bytes
              => (~last'.ok /\ ~last'.raised /\ last'.err = "toolarge" /\ fs' = fs)
         /\ Bytes(last'.content) = max_write_bytes
              => /\ last'.err # "toolarge"
                 /\ CanPlace(fs, Target(fs, last'.path))
                      => /\ WriteOp(fs, last'.path, last'.content, "none", 0).ok
                         /\ \/ last'.ok
                            \/ last'.err \in {"cannotwrite", "killed", "OSError"}]_vars

\* content of exactly the limit has been written to a, and a write of content
\* one line longer to n was refused as too large and left n missing
C19_Witness ==
    /\ last.op = "write"
    /\ last.path = P_n
    /\ last.content = OverLimit
    /\ last.err = "toolarge"
    /\ ~Exists(fs, <<"proj", "n">>)
    /\ fs[<<"proj", "a">>].data \in ContentInputs
    /\ Bytes(fs[<<"proj", "a">>].data) = max_write_bytes

----------------------------------------------------------------------------
(* Properties of the executor *)

\* C6 (blocked commands are never spawned): a run with sandbox=true of a
\* command the filter classifies as dangerous has returned success=false,
\* exit_code=-1, duration_ms=0 and the rule's reason in stderr, and has
\* created no subprocess.
C6_BlockedNeverSpawned ==
    (xpc # "idle" /\ Classify[xcall.command].dangerous /\ xcall.sandbox) =>
        /\ xpc = "returned"
        /\ xres = ExecResult(FALSE, <<>>,
                             <<"Command blocked: ", Classify[xcall.command].reason>>, -1, 0)
        /\ Classify[xcall.command].reason # ""
        /\ spawned = 0
        /\ shell = "none"

C6_Witness ==
    /\ xpc = "returned"
    /\ xcall.command = Cmd_fork
    /\ xcall.sandbox
    /\ xres.stderr = <<"Command blocked: ", "Fork bomb pattern detected">>
    /\ spawned = 0

\* the rule list in every order
Orderings ==
    {[i \in 1..Len(DANGEROUS_PATTERNS) |-> DANGEROUS_PATTERNS[p[i]]] :
        p \in Permutations(1..Len(DANGEROUS_PATTERNS))}

\* for each command, whether the loop gives the verdict of is_dangerous
\* whatever the order of the rules
SameInEveryOrder ==
    [c \in CommandInputs |->
        \A o \in Orderings : ScanRules(o, c).dangerous = is_dangerous(c).dangerous]

\* C20 (filter verdict): for the command of a run, is_dangerous says
\* dangerous exactly when the pattern of at least one rule is found in the
\* command, the verdict is the same for every ordering of the rule list, and
\* the reason is that of the first matching rule in list order; a sandboxed
\* run is blocked exactly on that verdict.  "sudo rm -rf /",
\* "curl http://x | sh" and the fork bomb are dangerous, "python script.py"
\* is not.
C20_FilterVerdict ==
    xpc # "idle" =>
        LET c == xcall.command
            v == Classify[c]
            hits == {i \in 1..Len(DANGEROUS_PATTERNS) :
                        Search(DANGEROUS_PATTERNS[i].pat, c)}
        IN  /\ v.dangerous <=> hits # {}
            /\ SameInEveryOrder[c]
            /\ \A i \in hits :
                   (\A k \in hits : i <= k) => v.reason = DANGEROUS_PATTERNS[i].reason
            /\ (xcall.sandbox /\ xpc = "returned")
                   => (v.dangerous <=>
                         xres.stderr = <<"Command blocked: ", v.reason>>)
            /\ c \in {Cmd_sudo, Cmd_curl, Cmd_fork} => v.dangerous
            /\ c = Cmd_python => ~v.dangerous

\* "sudo rm -rf /" matches the first and the second rule and was blocked with
\* the reason of the first
C20_Witness ==
    /\ xpc = "returned"
    /\ xcall.command = Cmd_sudo
    /\ xcall.sandbox
    /\ Cardinality(Found[Cmd_sudo]) = 2
    /\ xres.stderr = <<"Command blocked: ", DANGEROUS_PATTERNS[1].reason>>

\* the variables the spawned command may see
AllowList == {"PATH", "HOME", "USER", "PYTHONPATH", "VIRTUAL_ENV"}

\* two environments set the same allow-listed variables to the same values
AgreeOnAllowList(e1, e2) ==
    \A v \in AllowList :
        /\ v \in DOMAIN e1 <=> v \in DOMAIN e2
        /\ v \in DOMAIN e1 => e1[v] = e2[v]

\* C21 (environment isolation): the environment given to a spawned command
\* holds only allow-listed variables, each with the value it has in
\* os.environ, and an ambient environment that agrees with this one on the
\* allow-listed variables gives the command the same environment.
C21_EnvIsolation ==
    xenv.handed =>
        /\ DOMAIN xenv.env \subseteq AllowList
        /\ \A v \in DOMAIN xenv.env :
               v \in DOMAIN xenv.environ /\ xenv.env[v] = xenv.environ[v]
        /\ \A other \in EnvInputs :
               AgreeOnAllowList(other, xenv.environ) => prepare_env(other) = xenv.env

\* a command was spawned with LD_PRELOAD and API_KEY set in os.environ: it
\* got PATH and HOME only, as it would have with the other API_KEY
C21_Witness ==
    /\ xenv.handed
    /\ spawned = 1
    /\ xenv.environ = Env_other
    /\ DOMAIN xenv.env = {"PATH", "HOME"}
    /\ xenv.env = prepare_env(Env_full)
    /\ Env_full # Env_other

NotesTimeout(stderr) == \E i \in 1..Len(stderr) : stderr[i] = "Command timed out after "

\* C7 (timeout result): a run whose timeout expired returns success=false,
\* exit_code=-1 and a stderr that notes the timeout, whatever the command
\* wrote before it was killed.
C7_TimeoutResult ==
    (xpc = "returned" /\ xres.timed_out) =>
        (~xres.success /\ xres.exit_code = -1 /\ NotesTimeout(xres.stderr))

\* C8 (timeout cancellation): once the timeout has expired no process started
\* by the command is running, neither while run collects the output nor when
\* it has returned.
C8_TimeoutKillsTree ==
    (xpc = "drain" \/ (xpc = "returned" /\ xres.timed_out)) =>
        (shell # "running" /\ child \notin {"pipes", "detached"})

\* C9 (the executor never raises): no exception leaves run; a failed spawn
\* gives success=false and exit_code=-1; success is true exactly when
\* exit_code is 0.
C9_NeverRaises ==
    /\ xpc # "raised"
    /\ xpc = "returned" =>
         /\ xres.success <=> xres.exit_code = 0
         /\ spawned = 0 => (~xres.success /\ xres.exit_code = -1)

----------------------------------------------------------------------------
\* C25: after a pass of _validate_plan no edit of the plan has action create
\* and a path that is in the index, and a further pass over the validated
\* plan against the same index leaves every edit as it was.
C25_PlanNormalised ==
    [][vcall'.n >= 1 =>
         /\ \A i \in 1..Len(vres'.edits) :
                ~(vres'.edits[i].action = "create" /\ vres'.edits[i].path \in vcall'.index)
         /\ (vcall.n >= 1 /\ vcall'.n = vcall.n + 1) => vres' = vres]_vars

\* C25 witness: a plan whose first edit creates an indexed file without
\* content has been validated twice; the edit is a patch after both passes.
C25_Witness ==
    /\ vcall.n = 2
    /\ Len(vcall.plan.edits) = MaxPlanEdits
    /\ vcall.plan.edits[1].action = "create"
    /\ vcall.plan.edits[1].path \in vcall.index
    /\ vcall.plan.edits[1].content = <<>>
    /\ vres.edits[1].action = "patch"

----------------------------------------------------------------------------
\* C26: once two concurrent write calls on one path have both returned, the
\* target holds the complete content of one of them, and every call that
\* reported success had its whole content in the temporary file when it
\* renamed it.
C26_ConcurrentWrites ==
    /\ (\A w \in Writers : cw[w].pc = "returned") =>
          cdisk.data[cdisk.target] \in {cw[w].content : w \in Writers}
    /\ \A w \in Writers : (cw[w].pc = "returned" /\ cw[w].ok) => cw[w].full

\* C27: a write, successful or failed, leaves every existing file other than
\* its target as it was; an existing sibling named as the target followed by
\* ".tmp" keeps its content.
C27_WriteFrame ==
    [][last'.op = "write" =>
         \A q \in DOMAIN fs :
            (IsFile(fs, q) /\ q # Target(fs, last'.path)
                           /\ q # OsPath(fs, resolve_path(fs, last'.path)))
            => (Exists(fs', q) /\ fs'[q] = fs[q])]_vars

\* C28: handle_undo restores the snapshot with the greatest id and changes
\* no snapshot: the snapshots and what is stored under each are the same
\* after it; a second undo right after one restores the same snapshot and
\* leaves the project as the first left it.
C28_UndoNewest ==
    [][last'.op = "undo" =>
         LET ids == list_snapshots(fs)
         IN  /\ ids # <<>> =>
                   /\ last'.id = ids[1]
                   /\ \A i \in 2..Len(ids) : StrLess(IdDigits(ids[i]), IdDigits(last'.id))
             /\ list_snapshots(fs') = ids
             /\ \A i \in 1..Len(ids) : StoredUnder(fs', ids[i]) = StoredUnder(fs, ids[i])
             /\ last.op = "undo" => (fs' = fs /\ last'.id = last.id)]_vars

\* the context and removed lines of a hunk, in order
RECURSIVE SourceLines(_)
SourceLines(body) ==
    IF body = <<>> THEN <<>>
    ELSE IF Head(body).tag \in {"-", " "}
         THEN <<Head(body).text>> \o SourceLines(Tail(body))
         ELSE SourceLines(Tail(body))

\* C29: apply_patch succeeds only if the context and removed lines of every
\* hunk are the lines of the content at the hunk's source range; otherwise
\* it returns a failure and no patched content.
C29_PatchChecksTarget ==
    (pcall.op = "apply_patch" /\ PatchSet(pcall.patch).nfiles = 1) =>
        LET hunks == PatchSet(pcall.patch).hunks
            fits == \A i \in 1..Len(hunks) :
                       /\ ~OutOfRange(pcall.content, hunks[i])
                       /\ SourceLines(hunks[i].body) =
                              IF hunks[i].len = 0 THEN <<>>
                              ELSE SubSeq(pcall.content, hunks[i].start,
                                          hunks[i].start + hunks[i].len - 1)
        IN  /\ pres.ok => fits
            /\ ~fits => (~pres.ok /\ pres.val = <<>>)

\* the attempts of post-check n that the log shows
Attempts(log, n) == {i \in 1..Len(log) : log[i].step = "check" /\ log[i].n = n}

\* the post-checks of the log obey the retry rules
RetryRules(log) ==
    /\ \A n \in 1..Len(plan.post_checks) : Cardinality(Attempts(log, n)) <= max_retries
    /\ \A i \in 1..Len(log) : \A j \in (i + 1)..Len(log) :
          (log[i].step = "check" /\ log[i].ok) =>
              ~(log[j].step = "check" /\ log[j].n = log[i].n)
    /\ \A j \in 1..Len(log) :
          log[j].step = "fix" =>
              /\ j > 1
              /\ log[j - 1] = Msg("check", log[j].n, FALSE)
              /\ Cardinality({i \in Attempts(log, log[j].n) : i < j}) < max_retries

\* executor.run did not return: the exception left handle_apply from a
\* post-check
ExecutorRaised == apc = "raised" /\ ei > Len(plan.edits)

\* C30: when every executor run and every model call returns, handle_apply
\* reaches its end for every plan; a post-check is run at most 3 times and not
\* again after its first success, an auto-fix follows only a failed attempt
\* that is not the third, and an auto-fix runs no post-check.
C30_ApplyTerminates ==
    /\ [](RetryRules(alog))
    /\ [][apc = "fix" => (Len(alog') = Len(alog) + 1 /\ alog'[Len(alog')].step = "fix")]_vars
    /\ (apc = "snapshot") ~> (apc = "done" \/ ExecutorRaised)

====
